---- MODULE Spec2Model ----
(***************************************************************************)
(* A model of the bolt sidecar's commitment pipeline helpers and of the    *)
(* bolt CLI's delegate command:                                            *)
(*   - state/pricing.rs : PreconfPricing and validate_fee_inputs           *)
(*   - common.rs        : calculate_max_basefee, max_transaction_cost,     *)
(*                        validate_transaction, retry_with_backoff         *)
(*   - commands/delegate.rs, common/dirk.rs : DelegateCommand::run and     *)
(*                        the remote-signer (Dirk) session                 *)
(*   - json_rpc/mod.rs, api/commitments/spec.rs : method dispatch and      *)
(*                        the rendering of CommitmentError                 *)
(*   - primitives/constraint.rs : ConstraintsMessage::build                *)
(*   - json_rpc/mod.rs  : start_server and its shutdown channel            *)
(*   - telemetry/metrics.rs : ApiMetrics::increment_gross_tip_revenue      *)
(* Each group of operations has its own specification (SpecPricing,        *)
(* SpecValidation, SpecBasefee, SpecRetry, SpecDelegate, SpecRpc,          *)
(* SpecConstraints, SpecShutdown, SpecMetrics); the variables of the other *)
(* groups stay at their initial values.                                    *)
(***************************************************************************)
EXTENDS Integers, Sequences, FiniteSets, TLC

VARIABLES
    \* ---- the build ----
    overflow_checks,    \* TRUE: integer overflow panics; FALSE: it wraps
    \* ---- pricing (state/pricing.rs) ----
    block_gas_limit,    \* PreconfPricing.block_gas_limit
    preconfirmed_gas,   \* the slot's running total of admitted gas
    admitted_gas,       \* gas limits of the admitted transactions, in order
    fee_result,         \* the last result of calculate_min_priority_fee, with its inputs
    \* ---- validation (common.rs) ----
    account_state,      \* the sender's cached AccountState
    admitted_nonces,    \* nonces of the admitted transactions, in order
    initial_count,      \* the sender's transaction_count before the first admission
    validation,         \* the last max_transaction_cost / validate_transaction call
    \* ---- base fee projection (common.rs) ----
    basefee_call,       \* the last calculate_max_basefee call: current, block_diff, result
    \* ---- retry (common.rs) ----
    max_retries,        \* retry_with_backoff's max_retries
    fail_until,         \* the operation fails on its first fail_until calls
    count,              \* how often the operation has been invoked
    backoff_left,       \* delays the backoff iterator can still yield
    retry_pc,           \* "call" | "sleep" | "done"
    retry_result,       \* "none" | "Ok" | "Err"
    backoff_current,    \* ExponentialBackoff.current, in milliseconds
    waits,              \* the delays slept so far, in milliseconds
    \* ---- delegate command (commands/delegate.rs, common/dirk.rs) ----
    source,             \* SecretsSource: "SecretKeys" | "LocalKeystore" | "Dirk"
    cmd_action,         \* Action: "Delegate" | "Revoke"
    cmd_chain,          \* the configured Chain
    secrets,            \* the inline secret keys, or the keys held by the keystore files
    accounts,           \* the accounts the remote signer lists under the wallet path
    passphrases,        \* Option<Vec<String>>: the passphrases given for Dirk
    delegate_pc,        \* "run" | "list_accounts" | "account" | "unlock" | "sign" | "lock" | "verify" | "done"
    account_idx,        \* position of generate_from_dirk's loop in the account list
    passphrase_idx,     \* position of try_unlock_account's loop in the passphrases
    dirk_requests,      \* the requests sent to the remote signer, with their responses
    signed_messages,    \* the signed messages generated so far
    verified,           \* how many of them passed verify_message_signature
    write_called,       \* write_to_file was called
    out_file,           \* the content of the output file
    generate_result,    \* result of generate_from_*: "none" | "Ok" | "Err"
    run_result,         \* result of DelegateCommand::run: "none" | "Ok" | "Err"
    \* ---- JSON-RPC (json_rpc/mod.rs, api/commitments/spec.rs) ----
    rpc_call,           \* the last handle_rpc_request call, with its outcome
    error_response,     \* the last CommitmentError rendered by into_response
    \* ---- constraints (primitives/constraint.rs) ----
    constraints_call,   \* the last ConstraintsMessage::build / from_transaction call
    \* ---- shutdown channel (json_rpc/mod.rs) ----
    senders,            \* live copies of the mpsc::Sender start_server returned
    buffered,           \* values in the channel's buffer
    receiver,           \* shutdown_fn: "idle" | "waiting" (in recv) | "received" | "done"
    shutdown_calls,     \* how often rpc_api.shutdown() was invoked
    events,             \* what happened to the channel, in order
    \* ---- metrics (telemetry/metrics.rs) ----
    tip_arg,            \* the tip increment_gross_tip_revenue was called with
    tip,                \* increment_gross_tip_revenue's tip (mutated by the loop)
    parts,              \* its Vec of parts
    increments,         \* the amounts passed to counter!(GROSS_TIP_REVENUE).increment
    metrics_pc          \* "idle" | "single" | "split" | "increment" | "done" | "panicked"

pricing_vars == <<block_gas_limit, preconfirmed_gas, admitted_gas, fee_result>>
validation_vars == <<account_state, admitted_nonces, initial_count, validation>>
basefee_vars == <<basefee_call>>
retry_vars ==
    <<max_retries, fail_until, count, backoff_left, retry_pc, retry_result, backoff_current,
      waits>>
delegate_vars ==
    <<source, cmd_action, cmd_chain, secrets, accounts, passphrases, delegate_pc, account_idx,
      passphrase_idx, dirk_requests, signed_messages, verified, write_called, out_file,
      generate_result, run_result>>
rpc_vars == <<rpc_call, error_response>>
constraint_vars == <<constraints_call>>
shutdown_vars == <<senders, buffered, receiver, shutdown_calls, events>>
metrics_vars == <<tip_arg, tip, parts, increments, metrics_pc>>
vars ==
    <<overflow_checks, pricing_vars, validation_vars, basefee_vars, retry_vars,
      delegate_vars, rpc_vars, constraint_vars, shutdown_vars, metrics_vars>>

(***************************************************************************)
(* Bounds of the model.                                                    *)
(***************************************************************************)
MaxBlockGasLimit == 4   \* block gas limits 1..MaxBlockGasLimit
MaxGas == 6             \* gas arguments 0..MaxGas (beyond the largest limit)
MaxNonce == 3           \* transaction nonces 0..MaxNonce
MaxInitialCount == 1    \* the sender's first transaction_count is 0..MaxInitialCount
MaxBasefee == 20        \* current base fees 0..MaxBasefee (and the two largest values)
MaxBlockDiff == 5       \* block distances 0..MaxBlockDiff
MaxRetries == 5         \* max_retries 0..MaxRetries
MaxFailUntil == 7       \* the operation fails on its first 0..MaxFailUntil calls

\* Integer widths, scaled down: u64, u128 and U256 keep their order and
\* 2^U64Bits * 2^U128Bits still fits in 2^U256Bits, as 2^64 * 2^128 fits in 2^256.
U64Bits == 3
U128Bits == 14
U256Bits == 20
U64_MAX == 2^U64Bits - 1
U128_MAX == 2^U128Bits - 1
U256_MAX == 2^U256Bits - 1

None == [kind |-> "None"]

(***************************************************************************)
(* state/pricing.rs                                                        *)
(***************************************************************************)
Ok == [kind |-> "Ok"]
ExceedsBlockLimit(preconfirmed, limit) ==
    [kind |-> "ExceedsBlockLimit", preconfirmed |-> preconfirmed, limit |-> limit]
InvalidGasLimit(incoming_gas) ==
    [kind |-> "InvalidGasLimit", incoming_gas |-> incoming_gas]
InsufficientGas(requested, available) ==
    [kind |-> "InsufficientGas", requested |-> requested, available |-> available]

\* Faulty variant: the zero-gas check placed in front of the block-limit check.
validate_fee_inputs_zero_first(incoming_gas, preconfirmed, gas_limit) ==
    IF incoming_gas = 0 THEN InvalidGasLimit(incoming_gas)
    ELSE IF preconfirmed >= gas_limit THEN ExceedsBlockLimit(preconfirmed, gas_limit)
    ELSE IF incoming_gas > gas_limit - preconfirmed
         THEN InsufficientGas(incoming_gas, gas_limit - preconfirmed)
    ELSE Ok

\* Faulty variant: the remaining-gas check left out.
validate_fee_inputs_no_remaining(incoming_gas, preconfirmed, gas_limit) ==
    IF preconfirmed >= gas_limit THEN ExceedsBlockLimit(preconfirmed, gas_limit)
    ELSE IF incoming_gas = 0 THEN InvalidGasLimit(incoming_gas)
    ELSE Ok

validate_fee_inputs(incoming_gas, preconfirmed, gas_limit) ==
    IF preconfirmed >= gas_limit THEN ExceedsBlockLimit(preconfirmed, gas_limit)
    ELSE IF incoming_gas = 0 THEN InvalidGasLimit(incoming_gas)
    ELSE LET remaining_gas == gas_limit - preconfirmed IN
         IF incoming_gas > remaining_gas
         THEN InsufficientGas(incoming_gas, remaining_gas)
         ELSE Ok

\* Faulty variant: the result of validate_fee_inputs is ignored (no `?`).
calculate_min_priority_fee_unchecked(incoming_gas, preconfirmed, gas_limit) ==
    [kind |-> "Ok", remaining_gas |-> gas_limit - preconfirmed,
     after_gas |-> gas_limit - preconfirmed - incoming_gas]

\* calculate_min_priority_fee: the `?` on validate_fee_inputs returns its error;
\* otherwise the two u64 subtractions are computed and the fee is returned.
calculate_min_priority_fee(incoming_gas, preconfirmed, gas_limit) ==
    LET checked == validate_fee_inputs(incoming_gas, preconfirmed, gas_limit) IN
    IF checked.kind # "Ok" THEN checked
    ELSE LET remaining_gas == gas_limit - preconfirmed
             after_gas == remaining_gas - incoming_gas
         IN [kind |-> "Ok", remaining_gas |-> remaining_gas, after_gas |-> after_gas]

\* A pricing query with arbitrary arguments (the engine is stateless).
CalculateMinPriorityFee ==
    \E ig \in 0..MaxGas, ug \in 0..MaxGas :
        /\ fee_result' = [kind |-> "Query", incoming_gas |-> ig, preconfirmed |-> ug,
                          result |-> calculate_min_priority_fee(ig, ug, block_gas_limit)]
        /\ UNCHANGED <<block_gas_limit, preconfirmed_gas, admitted_gas>>

\* Admission of a transaction with gas limit ig into the slot: the pricing
\* precondition check must pass, then preconfirmed_gas grows by ig.
AdmitGas ==
    \E ig \in 0..MaxGas :
        LET r == calculate_min_priority_fee(ig, preconfirmed_gas, block_gas_limit) IN
        /\ fee_result' = [kind |-> "Admission", incoming_gas |-> ig,
                          preconfirmed |-> preconfirmed_gas, result |-> r]
        /\ IF r.kind = "Ok"
           THEN /\ preconfirmed_gas' = preconfirmed_gas + ig
                /\ admitted_gas' = Append(admitted_gas, ig)
           ELSE UNCHANGED <<preconfirmed_gas, admitted_gas>>
        /\ UNCHANGED block_gas_limit

PricingNext ==
    \/ CalculateMinPriorityFee /\ UNCHANGED <<overflow_checks, validation_vars, basefee_vars, retry_vars, delegate_vars, rpc_vars, constraint_vars, shutdown_vars, metrics_vars>>
    \/ AdmitGas /\ UNCHANGED <<overflow_checks, validation_vars, basefee_vars, retry_vars, delegate_vars, rpc_vars, constraint_vars, shutdown_vars, metrics_vars>>

(***************************************************************************)
(* Claims about the pricing engine.                                        *)
(***************************************************************************)
RECURSIVE SumSeq(_)
SumSeq(s) == IF s = <<>> THEN 0 ELSE Head(s) + SumSeq(Tail(s))

\* C1: calculate_min_priority_fee(IG, UG) with block gas limit L returns
\* ExceedsBlockLimit whenever UG >= L (also when IG = 0), otherwise
\* InvalidGasLimit when IG = 0, otherwise InsufficientGas when IG > L - UG, and
\* Ok exactly when UG < L and 0 < IG <= L - UG.
C1_FeeErrorOrder ==
    fee_result # None =>
        LET ig == fee_result.incoming_gas
            ug == fee_result.preconfirmed
            L == block_gas_limit
            k == fee_result.result.kind
        IN /\ (k = "ExceedsBlockLimit") <=> (ug >= L)
           /\ (k = "InvalidGasLimit") <=> (ug < L /\ ig = 0)
           /\ (k = "InsufficientGas") <=> (ug < L /\ ig # 0 /\ ig > L - ug)
           /\ (k = "Ok") <=> (ug < L /\ 0 < ig /\ ig <= L - ug)
           /\ k \in {"ExceedsBlockLimit", "InvalidGasLimit", "InsufficientGas", "Ok"}

\* C1 witness: a call with UG >= L and IG = 0 was answered ExceedsBlockLimit.
C1_Witness ==
    /\ fee_result # None
    /\ fee_result.incoming_gas = 0
    /\ fee_result.preconfirmed >= block_gas_limit
    /\ fee_result.result.kind = "ExceedsBlockLimit"

\* C2 (as stated): preconfirmed_gas stays strictly below block_gas_limit in
\* every reachable state.
C2_StrictlyBelowLimit == preconfirmed_gas < block_gas_limit

\* C2 (amended): preconfirmed_gas never exceeds block_gas_limit; it may become
\* equal to it, and once it is equal no further transaction is admitted.
C2_AtMostLimit ==
    /\ preconfirmed_gas <= block_gas_limit
    /\ (fee_result # None /\ fee_result.kind = "Admission"
        /\ fee_result.preconfirmed = block_gas_limit)
           => fee_result.result.kind = "ExceedsBlockLimit"

\* C2 witness: admissions have filled the block exactly, and a further
\* admission was refused.
C2_Witness ==
    /\ preconfirmed_gas = block_gas_limit
    /\ Len(admitted_gas) >= 2
    /\ fee_result.kind = "Admission"
    /\ fee_result.result.kind = "ExceedsBlockLimit"

\* C3: for any sequence of admissions into one slot, the sum of the gas limits
\* of all admitted transactions never exceeds block_gas_limit.
C3_AdmittedGasSum ==
    /\ SumSeq(admitted_gas) <= block_gas_limit
    /\ SumSeq(admitted_gas) = preconfirmed_gas

\* C3 witness: three transactions were admitted and a fourth was refused for
\* lack of remaining gas.
C3_Witness ==
    /\ Len(admitted_gas) = 3
    /\ SumSeq(admitted_gas) < block_gas_limit
    /\ fee_result.kind = "Admission"
    /\ fee_result.result.kind = "InsufficientGas"


(***************************************************************************)
(* common.rs: max_transaction_cost and validate_transaction                *)
(***************************************************************************)
Some(v) == [kind |-> "Some", value |-> v]
unwrap_or(opt, default) == IF opt.kind = "Some" THEN opt.value ELSE default

Panic == [kind |-> "Panic"]
Value(v) == [kind |-> "Value", value |-> v]

\* max_transaction_cost: the u128 additions and the u128 product overflow when
\* their exact result exceeds u128::MAX; a build with overflow checks panics
\* there, a build without them wraps modulo 2^128. The final U256 addition wraps.
max_transaction_cost(transaction) ==
    LET gas_limit == transaction.gas_limit
        cap0 == transaction.max_fee_per_gas
        sum1 == cap0 + unwrap_or(transaction.max_priority_fee_per_gas, 0)
        cap1 == sum1 % 2^U128Bits
        is4844 == transaction.blob.kind = "Some"
        blobsum == IF is4844
                   THEN transaction.blob.value.max_fee_per_blob_gas
                        + transaction.blob.value.blob_gas
                   ELSE 0
        sum2 == cap1 + (blobsum % 2^U128Bits)
        fee_cap == sum2 % 2^U128Bits
        product == gas_limit * fee_cap
        overflow == \/ sum1 > U128_MAX
                    \/ blobsum > U128_MAX
                    \/ sum2 > U128_MAX
                    \/ product > U128_MAX
    IN IF overflow /\ overflow_checks
       THEN Panic
       ELSE Value(((product % 2^U128Bits) + transaction.value) % 2^U256Bits)

NonceTooLow(expected, got) == [kind |-> "NonceTooLow", expected |-> expected, got |-> got]
NonceTooHigh(expected, got) == [kind |-> "NonceTooHigh", expected |-> expected, got |-> got]
InsufficientBalance == [kind |-> "InsufficientBalance"]
AccountHasCode == [kind |-> "AccountHasCode"]

\* Faulty variant: the nonce-too-high check left out (any nonce >= count passes).
validate_transaction_no_nonce_too_high(account, transaction) ==
    IF transaction.nonce < account.transaction_count
    THEN NonceTooLow(account.transaction_count, transaction.nonce)
    ELSE LET cost == max_transaction_cost(transaction) IN
         IF cost.kind = "Panic" THEN Panic
         ELSE IF cost.value > account.balance THEN InsufficientBalance
         ELSE IF account.has_code THEN AccountHasCode
         ELSE Ok

\* Faulty variant: the code check placed in front of the balance check.
validate_transaction_code_first(account, transaction) ==
    IF transaction.nonce < account.transaction_count
    THEN NonceTooLow(account.transaction_count, transaction.nonce)
    ELSE IF transaction.nonce > account.transaction_count
    THEN NonceTooHigh(account.transaction_count, transaction.nonce)
    ELSE IF account.has_code THEN AccountHasCode
    ELSE LET cost == max_transaction_cost(transaction) IN
         IF cost.kind = "Panic" THEN Panic
         ELSE IF cost.value > account.balance THEN InsufficientBalance
         ELSE Ok

\* Faulty variant: the balance check off by one (>= instead of >).
validate_transaction_balance_strict(account, transaction) ==
    IF transaction.nonce < account.transaction_count
    THEN NonceTooLow(account.transaction_count, transaction.nonce)
    ELSE IF transaction.nonce > account.transaction_count
    THEN NonceTooHigh(account.transaction_count, transaction.nonce)
    ELSE LET cost == max_transaction_cost(transaction) IN
         IF cost.kind = "Panic" THEN Panic
         ELSE IF cost.value >= account.balance THEN InsufficientBalance
         ELSE IF account.has_code THEN AccountHasCode
         ELSE Ok

validate_transaction(account, transaction) ==
    IF transaction.nonce < account.transaction_count
    THEN NonceTooLow(account.transaction_count, transaction.nonce)
    ELSE IF transaction.nonce > account.transaction_count
    THEN NonceTooHigh(account.transaction_count, transaction.nonce)
    ELSE LET cost == max_transaction_cost(transaction) IN
         IF cost.kind = "Panic" THEN Panic
         ELSE IF cost.value > account.balance THEN InsufficientBalance
         ELSE IF account.has_code THEN AccountHasCode
         ELSE Ok

\* The transactions tried: small fields and the largest value of each width.
GasLimits == {2, U64_MAX}
Fees == {1, U128_MAX}
PriorityFees == {None, Some(1)}
Blobs == {None, Some([max_fee_per_blob_gas |-> 1, blob_gas |-> 1])}
TxValues == {0, U256_MAX}
Balances == {0, 4, U256_MAX}

Transactions ==
    [nonce : 0..MaxNonce, gas_limit : GasLimits, max_fee_per_gas : Fees,
     max_priority_fee_per_gas : PriorityFees, blob : Blobs, value : TxValues]

\* max_transaction_cost applied to a transaction.
MaxTransactionCost ==
    \E tx \in Transactions :
        /\ validation' = [kind |-> "Cost", tx |-> tx, account |-> account_state,
                          result |-> max_transaction_cost(tx)]
        /\ UNCHANGED <<account_state, admitted_nonces, initial_count>>

\* validate_transaction called on the cached account state; nothing is admitted.
ValidateTransaction ==
    \E tx \in Transactions :
        /\ validation' = [kind |-> "Validation", tx |-> tx, account |-> account_state,
                          result |-> validate_transaction(account_state, tx)]
        /\ UNCHANGED <<account_state, admitted_nonces, initial_count>>

\* Admission of a transaction: validate_transaction must pass against the
\* sender's cached state, then the cached transaction_count is incremented.
AdmitTransaction ==
    \E tx \in Transactions :
        /\ validate_transaction(account_state, tx) = Ok
        /\ validation' = [kind |-> "Admission", tx |-> tx, account |-> account_state,
                          result |-> Ok]
        /\ account_state' =
               [account_state EXCEPT !.transaction_count = account_state.transaction_count + 1]
        /\ admitted_nonces' = Append(admitted_nonces, tx.nonce)
        /\ UNCHANGED initial_count

ValidationNext ==
    \/ MaxTransactionCost /\ UNCHANGED <<overflow_checks, pricing_vars, basefee_vars, retry_vars, delegate_vars, rpc_vars, constraint_vars, shutdown_vars, metrics_vars>>
    \/ ValidateTransaction /\ UNCHANGED <<overflow_checks, pricing_vars, basefee_vars, retry_vars, delegate_vars, rpc_vars, constraint_vars, shutdown_vars, metrics_vars>>
    \/ AdmitTransaction /\ UNCHANGED <<overflow_checks, pricing_vars, basefee_vars, retry_vars, delegate_vars, rpc_vars, constraint_vars, shutdown_vars, metrics_vars>>

(***************************************************************************)
(* common.rs: calculate_max_basefee                                        *)
(***************************************************************************)
multiplier == 1125
divisor == 1000

\* One u128 multiplication or addition: an exact result above u128::MAX panics
\* in a build with overflow checks and wraps in a build without them.
u128_op(exact) ==
    IF exact <= U128_MAX THEN Value(exact)
    ELSE IF overflow_checks THEN Panic
    ELSE Value(exact % 2^U128Bits)

\* Faulty variant: the overflow guard divides by the divisor instead of the
\* multiplier.
RECURSIVE basefee_loop_wrong_guard(_, _)
basefee_loop_wrong_guard(max_basefee, remaining) ==
    IF remaining = 0 THEN Some(max_basefee)
    ELSE IF max_basefee > U128_MAX \div divisor THEN None
    ELSE LET product == u128_op(max_basefee * multiplier) IN
         IF product.kind = "Panic" THEN Panic
         ELSE LET next == u128_op((product.value \div divisor) + 1) IN
              IF next.kind = "Panic" THEN Panic
              ELSE basefee_loop_wrong_guard(next.value, remaining - 1)

\* The loop `for _ in 0..block_diff` with `remaining` iterations to go.
RECURSIVE basefee_loop(_, _)
basefee_loop(max_basefee, remaining) ==
    IF remaining = 0 THEN Some(max_basefee)
    ELSE IF max_basefee > U128_MAX \div multiplier THEN None
    ELSE LET product == u128_op(max_basefee * multiplier) IN
         IF product.kind = "Panic" THEN Panic
         ELSE LET next == u128_op((product.value \div divisor) + 1) IN
              IF next.kind = "Panic" THEN Panic
              ELSE basefee_loop(next.value, remaining - 1)

calculate_max_basefee(current, block_diff) == basefee_loop(current, block_diff)

Basefees == (0..MaxBasefee) \cup {U128_MAX - 1, U128_MAX}

CalculateMaxBasefee ==
    \E current \in Basefees, block_diff \in 0..MaxBlockDiff :
        /\ basefee_call' = [kind |-> "Call", current |-> current, block_diff |-> block_diff,
                            result |-> calculate_max_basefee(current, block_diff)]

BasefeeNext ==
    CalculateMaxBasefee /\ UNCHANGED <<overflow_checks, pricing_vars, validation_vars, retry_vars, delegate_vars, rpc_vars, constraint_vars, shutdown_vars, metrics_vars>>

(***************************************************************************)
(* common.rs: retry_with_backoff                                           *)
(*   Retry::spawn(backoff, fut) invokes fut; on Ok it returns Ok; on Err    *)
(*   it takes the next delay of the backoff iterator: if there is none it   *)
(*   returns the Err, otherwise it sleeps for the delay and invokes fut     *)
(*   again.                                                                 *)
(***************************************************************************)
\* Faulty variant: one delay too few.
backoff_take_one_less(retries) == IF retries = 0 THEN 0 ELSE retries - 1

\* Faulty variant: one delay too many.
backoff_take_one_more(retries) == retries + 1

\* `.take(max_retries)`: the number of delays the backoff iterator yields.
backoff_take(retries) == retries

\* ExponentialBackoff::from_millis(100): the base, which is also the first
\* value of `current`.
backoff_base == 100

\* .factor(2)
backoff_factor == 2

\* .max_delay(Duration::from_secs(1)), in milliseconds
max_delay == 1000

\* ExponentialBackoff::next (tokio_retry): the delay is current * factor; when
\* that exceeds max_delay it yields max_delay and leaves current alone,
\* otherwise current is multiplied by the base.
backoff_next(current) ==
    LET duration == current * backoff_factor
    IN IF duration > max_delay
       THEN [delay |-> max_delay, current |-> current]
       ELSE [delay |-> duration, current |-> current * backoff_base]

\* .map(jitter): the delay is scaled by a random factor of the unit interval;
\* the outcomes kept are none of it, half of it and all of it.
jitter(duration) == {0, duration \div 2, duration}

\* The operation is invoked and succeeds: retry_with_backoff returns Ok.
AttemptOk ==
    /\ retry_pc = "call"
    /\ count + 1 > fail_until
    /\ count' = count + 1
    /\ retry_pc' = "done"
    /\ retry_result' = "Ok"
    /\ UNCHANGED <<max_retries, fail_until, backoff_left, backoff_current, waits>>

\* The operation is invoked and fails, and the backoff iterator yields a
\* delay, which the jitter scales: the task sleeps for that long.
AttemptErrRetry ==
    /\ retry_pc = "call"
    /\ count + 1 <= fail_until
    /\ backoff_left > 0
    /\ count' = count + 1
    /\ backoff_left' = backoff_left - 1
    /\ backoff_current' = backoff_next(backoff_current).current
    /\ \E delay \in jitter(backoff_next(backoff_current).delay) :
        waits' = Append(waits, delay)
    /\ retry_pc' = "sleep"
    /\ UNCHANGED <<max_retries, fail_until, retry_result>>

\* The operation is invoked and fails, and the backoff iterator is exhausted:
\* retry_with_backoff returns the error.
AttemptErrGiveUp ==
    /\ retry_pc = "call"
    /\ count + 1 <= fail_until
    /\ backoff_left = 0
    /\ count' = count + 1
    /\ retry_pc' = "done"
    /\ retry_result' = "Err"
    /\ UNCHANGED <<max_retries, fail_until, backoff_left, backoff_current, waits>>

\* The delay has passed.
Wake ==
    /\ retry_pc = "sleep"
    /\ retry_pc' = "call"
    /\ UNCHANGED <<max_retries, fail_until, count, backoff_left, retry_result,
                   backoff_current, waits>>

RetryNext ==
    \/ AttemptOk /\ UNCHANGED <<overflow_checks, pricing_vars, validation_vars, basefee_vars, delegate_vars, rpc_vars, constraint_vars, shutdown_vars, metrics_vars>>
    \/ AttemptErrRetry /\ UNCHANGED <<overflow_checks, pricing_vars, validation_vars, basefee_vars, delegate_vars, rpc_vars, constraint_vars, shutdown_vars, metrics_vars>>
    \/ AttemptErrGiveUp /\ UNCHANGED <<overflow_checks, pricing_vars, validation_vars, basefee_vars, delegate_vars, rpc_vars, constraint_vars, shutdown_vars, metrics_vars>>
    \/ Wake /\ UNCHANGED <<overflow_checks, pricing_vars, validation_vars, basefee_vars, delegate_vars, rpc_vars, constraint_vars, shutdown_vars, metrics_vars>>

(***************************************************************************)
(* commands/delegate.rs and common/dirk.rs: the delegate command           *)
(*   Keys, digests and signatures are symbolic: a public key names the     *)
(*   secret key it belongs to, SHA-256 is collision free (a digest is the  *)
(*   tuple that was hashed), and a signature verifies under exactly one    *)
(*   public key and one signing root.                                      *)
(***************************************************************************)
Err == [kind |-> "Err"]
OkValue(v) == [kind |-> "Ok", value |-> v]

\* BlsSecretKey::try_from(sk.trim().to_string())
BlsSecretKey_try_from(sk) ==
    IF sk = "malformed" THEN Err ELSE OkValue([secret |-> sk])

\* sk.public_key()
public_key(sk) == [kind |-> "pubkey", of |-> sk.secret]

\* BlsPublicKey::try_from(pubkey_bytes.as_slice())
BlsPublicKey_try_from(pubkey_bytes) ==
    IF pubkey_bytes.kind = "pubkey" THEN OkValue(pubkey_bytes) ELSE Err

\* Keystore::from_json_file, keystore_secret.get and ks.decrypt_keypair: a
\* keystore file either yields its key pair or one of the three steps fails.
decrypt_keypair(ks) ==
    IF ks = "malformed"
    THEN Err
    ELSE OkValue([pk |-> public_key([secret |-> ks]), sk |-> [secret |-> ks]])

\* chain.fork_version()
fork_version(chain) == [fork_version_of |-> chain]

\* compute_domain_from_mask(fork_version): the commit-boost domain.
compute_domain_from_mask(version) == [mask |-> "COMMIT_BOOST_DOMAIN", fork_version |-> version]

\* compute_signing_root(object_root, domain)
compute_signing_root(object_root, domain) == [object_root |-> object_root, domain |-> domain]

\* compute_commit_boost_signing_root(digest, &chain)
compute_commit_boost_signing_root(message_digest, chain) ==
    compute_signing_root(message_digest, compute_domain_from_mask(fork_version(chain)))

\* The one signature that verifies under pubkey for root.
signature_of(pubkey, root) == [kind |-> "signature", signer |-> pubkey, root |-> root]

\* sk.sign(signing_root)
sign(sk, root) == signature_of(public_key(sk), root)

\* DelegationMessage::new: action = SignedMessageAction::Delegation as u8
DelegationMessage_new(validator_pubkey, delegatee_pubkey) ==
    [action |-> 0, validator_pubkey |-> validator_pubkey, delegatee_pubkey |-> delegatee_pubkey]

\* Faulty variant: a revocation carries the action byte of a delegation.
RevocationMessage_new_action0(validator_pubkey, delegatee_pubkey) ==
    [action |-> 0, validator_pubkey |-> validator_pubkey, delegatee_pubkey |-> delegatee_pubkey]

\* RevocationMessage::new: action = SignedMessageAction::Revocation as u8
RevocationMessage_new(validator_pubkey, delegatee_pubkey) ==
    [action |-> 1, validator_pubkey |-> validator_pubkey, delegatee_pubkey |-> delegatee_pubkey]

\* DelegationMessage::digest and RevocationMessage::digest:
\* SHA-256(action ++ validator_pubkey ++ delegatee_pubkey)
digest(message) ==
    [sha256 |-> <<message.action, message.validator_pubkey, message.delegatee_pubkey>>]

\* SignedMessage::Delegation(SignedDelegation {message, signature}) and
\* SignedMessage::Revocation(SignedRevocation {message, signature})
SignedMessage(action, validator_pubkey, delegatee_pubkey, signature) ==
    IF action = "Delegate"
    THEN [kind |-> "Delegation",
          message |-> DelegationMessage_new(validator_pubkey, delegatee_pubkey),
          signature |-> signature]
    ELSE [kind |-> "Revocation",
          message |-> RevocationMessage_new(validator_pubkey, delegatee_pubkey),
          signature |-> signature]

\* The message a SignedMessage of this action carries.
Message(action, validator_pubkey, delegatee_pubkey) ==
    SignedMessage(action, validator_pubkey, delegatee_pubkey, None).message

\* verify_commit_boost_root(pubkey, root, signature, chain)
verify_commit_boost_root(pubkey, message_digest, signature, chain) ==
    IF /\ signature.signer = pubkey
       /\ signature.root = compute_commit_boost_signing_root(message_digest, chain)
    THEN Ok
    ELSE Err

\* verify_message_signature / SignedMessage::verify_signature
verify_message_signature(message, chain) ==
    IF message.signature.kind # "signature"
    THEN Err    \* blst::min_pk::Signature::from_bytes fails
    ELSE verify_commit_boost_root(message.message.validator_pubkey,
                                  digest(message.message), message.signature, chain)

\* Faulty variant: the local key signs the message digest, not the signing root.
local_signed_message_signs_digest(sk, delegatee_pubkey, chain, action) ==
    SignedMessage(action, public_key(sk), delegatee_pubkey,
                  sign(sk, digest(Message(action, public_key(sk), delegatee_pubkey))))

\* generate_from_local_keys, the body of the loop after the key was parsed.
local_signed_message(sk, delegatee_pubkey, chain, action) ==
    LET message == Message(action, public_key(sk), delegatee_pubkey)
        signing_root == compute_commit_boost_signing_root(digest(message), chain)
        signature == sign(sk, signing_root)
    IN SignedMessage(action, public_key(sk), delegatee_pubkey, signature)

RECURSIVE local_keys_loop(_, _, _, _, _)
local_keys_loop(secret_keys, delegatee_pubkey, chain, action, signed) ==
    IF secret_keys = <<>>
    THEN OkValue(signed)
    ELSE LET sk == BlsSecretKey_try_from(Head(secret_keys))
         IN IF sk.kind = "Err"
            THEN Err
            ELSE local_keys_loop(Tail(secret_keys), delegatee_pubkey, chain, action,
                     Append(signed, local_signed_message(sk.value, delegatee_pubkey, chain, action)))

generate_from_local_keys(secret_keys, delegatee_pubkey, chain, action) ==
    local_keys_loop(secret_keys, delegatee_pubkey, chain, action, <<>>)

\* generate_from_keystore, the body of the loop after the key pair was decrypted.
keystore_signed_message(kp, delegatee_pubkey, chain, action) ==
    LET validator_pubkey == BlsPublicKey_try_from(kp.pk).value
        message == Message(action, validator_pubkey, delegatee_pubkey)
        signing_root == compute_commit_boost_signing_root(digest(message), chain)
        signature == sign(kp.sk, signing_root)
    IN SignedMessage(action, validator_pubkey, delegatee_pubkey, signature)

RECURSIVE keystore_loop(_, _, _, _, _)
keystore_loop(keystores_paths, delegatee_pubkey, chain, action, signed) ==
    IF keystores_paths = <<>>
    THEN OkValue(signed)
    ELSE LET kp == decrypt_keypair(Head(keystores_paths))
         IN IF kp.kind = "Err"
            THEN Err
            ELSE keystore_loop(Tail(keystores_paths), delegatee_pubkey, chain, action,
                     Append(signed, keystore_signed_message(kp.value, delegatee_pubkey, chain, action)))

generate_from_keystore(keystores_paths, delegatee_pubkey, chain, action) ==
    keystore_loop(keystores_paths, delegatee_pubkey, chain, action, <<>>)

\* ---- common/dirk.rs: one request to the remote signer ----
\* A response carries a ResponseState; "TransportError" is a failed gRPC call.
ResponseStates == {"Unknown", "Succeeded", "Denied", "Failed"}
Responses == ResponseStates \cup {"TransportError"}

\* Dirk::list_accounts
list_accounts(response) ==
    IF response = "TransportError" THEN Err
    ELSE IF response # "Succeeded" THEN Err
    ELSE Ok

\* Faulty variant: a Denied unlock counts as unlocked.
unlock_account_denied_unlocks(response) ==
    CASE response = "TransportError" -> Err
      [] response = "Succeeded" -> OkValue(TRUE)
      [] response = "Denied" -> OkValue(TRUE)
      [] response = "Unknown" -> Err
      [] response = "Failed" -> Err

\* Faulty variant: a Denied unlock is an error.
unlock_account_denied_fails(response) ==
    CASE response = "TransportError" -> Err
      [] response = "Succeeded" -> OkValue(TRUE)
      [] response = "Denied" -> Err
      [] response = "Unknown" -> Err
      [] response = "Failed" -> Err

\* Faulty variant: an Unknown unlock is treated like a Denied one.
unlock_account_unknown_denied(response) ==
    CASE response = "TransportError" -> Err
      [] response = "Succeeded" -> OkValue(TRUE)
      [] response = "Denied" -> OkValue(FALSE)
      [] response = "Unknown" -> OkValue(FALSE)
      [] response = "Failed" -> Err

\* Dirk::unlock_account
unlock_account(response) ==
    CASE response = "TransportError" -> Err
      [] response = "Succeeded" -> OkValue(TRUE)
      [] response = "Denied" -> OkValue(FALSE)
      [] response = "Unknown" -> Err
      [] response = "Failed" -> Err

\* Dirk::lock_account
lock_account(response) ==
    CASE response = "TransportError" -> Err
      [] response = "Succeeded" -> OkValue(TRUE)
      [] response = "Denied" -> OkValue(FALSE)
      [] response = "Unknown" -> Err
      [] response = "Failed" -> Err

\* Faulty variant: a Denied response is also taken as a success.
request_signature_accepts_denied(response, signature) ==
    IF response = "TransportError" THEN Err
    ELSE IF response \notin {"Succeeded", "Denied"} THEN Err
    ELSE IF signature.kind = "empty" THEN Err
    ELSE IF signature.kind = "wrong_length" THEN Err
    ELSE OkValue(signature)

\* Dirk::request_signature
request_signature(response, signature) ==
    IF response = "TransportError" THEN Err
    ELSE IF response # "Succeeded" THEN Err
    ELSE IF signature.kind = "empty" THEN Err
    ELSE IF signature.kind = "wrong_length" THEN Err   \* BlsSignature::try_from
    ELSE OkValue(signature)

\* What the signer may put into the signature field of a Sign response for
\* (account, data, domain): the signature of the account's key over
\* compute_signing_root(data, domain), a signature of another key, bytes of
\* the right length that are no signature, bytes of a wrong length, nothing.
SignResponses(account, data, domain) ==
    { signature_of(account.public_key, compute_signing_root(data, domain)),
      signature_of([kind |-> "pubkey", of |-> "other"], compute_signing_root(data, domain)),
      [kind |-> "not_a_signature"],
      [kind |-> "wrong_length"],
      [kind |-> "empty"] }

Request(op, account, passphrase, state) ==
    [op |-> op, account |-> account, passphrase |-> passphrase, state |-> state]

\* ---- the inputs of the command ----
Sources == {"SecretKeys", "LocalKeystore", "Dirk"}
Actions == {"Delegate", "Revoke"}
Chains == {"Mainnet", "Holesky"}
SecretLists ==
    {<<>>, <<"sk1">>, <<"sk1", "sk2">>, <<"malformed">>, <<"sk1", "malformed">>}
Account(name, key) == [name |-> name, public_key |-> [kind |-> "pubkey", of |-> key]]
AccountLists ==
    { <<>>,
      <<Account("wallet/1", "k1")>>,
      <<Account("wallet/1", "k1"), Account("wallet/2", "k2")>>,
      <<Account("wallet/1", "k1"), [name |-> "wallet/2", public_key |-> [kind |-> "malformed"]]>> }
PassphraseLists == {None, Some(<<>>), Some(<<"p1">>), Some(<<"p1", "p2">>)}
delegatee_pubkey == [kind |-> "pubkey", of |-> "delegatee"]

delegate_config == <<source, cmd_action, cmd_chain, secrets, accounts, passphrases>>

\* ---- DelegateCommand::run ----
\* The start of run: parse_bls_public_key(&self.delegatee_pubkey)?,
\* KeystoreSecret::from_keystore_options(&opts)? and Dirk::connect(..)? can
\* fail; the local sources then generate their messages at once.
Run ==
    /\ delegate_pc = "run"
    /\ \E setup_ok \in BOOLEAN :
        IF ~setup_ok
        THEN /\ delegate_pc' = "done"
             /\ run_result' = "Err"
             /\ UNCHANGED <<signed_messages, generate_result>>
        ELSE IF source = "Dirk"
        THEN /\ delegate_pc' = "list_accounts"
             /\ UNCHANGED <<run_result, signed_messages, generate_result>>
        ELSE LET generated ==
                     IF source = "SecretKeys"
                     THEN generate_from_local_keys(secrets, delegatee_pubkey, cmd_chain, cmd_action)
                     ELSE generate_from_keystore(secrets, delegatee_pubkey, cmd_chain, cmd_action)
             IN IF generated.kind = "Err"
                THEN /\ delegate_pc' = "done"
                     /\ generate_result' = "Err"
                     /\ run_result' = "Err"
                     /\ UNCHANGED signed_messages
                ELSE /\ delegate_pc' = "verify"
                     /\ generate_result' = "Ok"
                     /\ signed_messages' = generated.value
                     /\ UNCHANGED run_result
    /\ UNCHANGED <<delegate_config, account_idx, passphrase_idx, dirk_requests, verified,
                   write_called, out_file>>

\* generate_from_dirk: dirk.list_accounts(account_path).await?
ListAccounts ==
    /\ delegate_pc = "list_accounts"
    /\ \E response \in Responses :
        /\ dirk_requests' = Append(dirk_requests, Request("ListAccounts", "", "", response))
        /\ IF list_accounts(response).kind = "Ok"
           THEN /\ delegate_pc' = "account"
                /\ account_idx' = 1
                /\ UNCHANGED <<generate_result, run_result>>
           ELSE /\ delegate_pc' = "done"
                /\ generate_result' = "Err"
                /\ run_result' = "Err"
                /\ UNCHANGED account_idx
    /\ UNCHANGED <<delegate_config, passphrase_idx, signed_messages, verified, write_called,
                   out_file>>

\* Faulty variant: without passphrases the unlock is skipped and the account
\* is signed with.
NextAccount_skips_unlock ==
    /\ delegate_pc = "account"
    /\ IF account_idx > Len(accounts)
       THEN /\ delegate_pc' = "verify"
            /\ generate_result' = "Ok"
            /\ UNCHANGED <<run_result, passphrase_idx>>
       ELSE IF BlsPublicKey_try_from(accounts[account_idx].public_key).kind = "Err"
       THEN /\ delegate_pc' = "done"
            /\ generate_result' = "Err"
            /\ run_result' = "Err"
            /\ UNCHANGED passphrase_idx
       ELSE IF passphrases = None
       THEN /\ delegate_pc' = "sign"
            /\ UNCHANGED <<generate_result, run_result, passphrase_idx>>
       ELSE /\ delegate_pc' = "unlock"
            /\ passphrase_idx' = 1
            /\ UNCHANGED <<generate_result, run_result>>
    /\ UNCHANGED <<delegate_config, account_idx, dirk_requests, signed_messages, verified,
                   write_called, out_file>>

\* generate_from_dirk, the head of the loop over all_accounts_info: after the
\* last account it returns Ok(signed_messages); otherwise it parses the public
\* key, bails without passphrases and enters try_unlock_account, which bails
\* at once when the passphrase list is empty.
NextAccount ==
    /\ delegate_pc = "account"
    /\ IF account_idx > Len(accounts)
       THEN /\ delegate_pc' = "verify"
            /\ generate_result' = "Ok"
            /\ UNCHANGED <<run_result, passphrase_idx>>
       ELSE IF \/ BlsPublicKey_try_from(accounts[account_idx].public_key).kind = "Err"
               \/ passphrases = None
               \/ passphrases.value = <<>>
       THEN /\ delegate_pc' = "done"
            /\ generate_result' = "Err"
            /\ run_result' = "Err"
            /\ UNCHANGED passphrase_idx
       ELSE /\ delegate_pc' = "unlock"
            /\ passphrase_idx' = 1
            /\ UNCHANGED <<generate_result, run_result>>
    /\ UNCHANGED <<delegate_config, account_idx, dirk_requests, signed_messages, verified,
                   write_called, out_file>>

\* try_unlock_account, one turn of the loop: dirk.unlock_account(..).await?
UnlockAccount ==
    /\ delegate_pc = "unlock"
    /\ \E response \in Responses :
        LET unlocked == unlock_account(response)
        IN /\ dirk_requests' = Append(dirk_requests,
                   Request("Unlock", accounts[account_idx].name,
                           passphrases.value[passphrase_idx], response))
           /\ IF unlocked.kind = "Err"
              THEN /\ delegate_pc' = "done"
                   /\ generate_result' = "Err"
                   /\ run_result' = "Err"
                   /\ UNCHANGED passphrase_idx
              ELSE IF unlocked.value
              THEN /\ delegate_pc' = "sign"
                   /\ UNCHANGED <<generate_result, run_result, passphrase_idx>>
              ELSE IF passphrase_idx < Len(passphrases.value)
              THEN /\ passphrase_idx' = passphrase_idx + 1
                   /\ UNCHANGED <<delegate_pc, generate_result, run_result>>
              ELSE /\ delegate_pc' = "done"    \* bail!("Failed to unlock account")
                   /\ generate_result' = "Err"
                   /\ run_result' = "Err"
                   /\ UNCHANGED passphrase_idx
    /\ UNCHANGED <<delegate_config, account_idx, signed_messages, verified, write_called,
                   out_file>>

\* generate_from_dirk: dirk.request_signature(name, digest, domain).await?
\* and the push of the signed message.
RequestSignature ==
    /\ delegate_pc = "sign"
    /\ LET account == accounts[account_idx]
           pubkey == BlsPublicKey_try_from(account.public_key).value
           domain == compute_domain_from_mask(fork_version(cmd_chain))
           signing_root == digest(Message(cmd_action, pubkey, delegatee_pubkey))
       IN \E response \in Responses :
            \E bytes \in SignResponses(account, signing_root, domain) :
               LET signature == request_signature(response, bytes)
               IN /\ dirk_requests' = Append(dirk_requests,
                          Request("Sign", account.name, "", response))
                  /\ IF signature.kind = "Err"
                     THEN /\ delegate_pc' = "done"
                          /\ generate_result' = "Err"
                          /\ run_result' = "Err"
                          /\ UNCHANGED signed_messages
                     ELSE /\ delegate_pc' = "lock"
                          /\ signed_messages' = Append(signed_messages,
                                 SignedMessage(cmd_action, pubkey, delegatee_pubkey, signature.value))
                          /\ UNCHANGED <<generate_result, run_result>>
    /\ UNCHANGED <<delegate_config, account_idx, passphrase_idx, verified, write_called,
                   out_file>>

\* Faulty variant: a failed lock_account ends generate_from_dirk with the error.
LockAccount_fatal ==
    /\ delegate_pc = "lock"
    /\ \E response \in Responses :
        /\ dirk_requests' = Append(dirk_requests,
               Request("Lock", accounts[account_idx].name, "", response))
        /\ IF lock_account(response).kind = "Err"
           THEN /\ delegate_pc' = "done"
                /\ generate_result' = "Err"
                /\ run_result' = "Err"
                /\ UNCHANGED account_idx
           ELSE /\ delegate_pc' = "account"
                /\ account_idx' = account_idx + 1
                /\ UNCHANGED <<generate_result, run_result>>
    /\ UNCHANGED <<delegate_config, passphrase_idx, signed_messages, verified, write_called,
                   out_file>>

\* generate_from_dirk: if let Err(err) = dirk.lock_account(name).await { warn!(..) }
\* and the step to the next account.
LockAccount ==
    /\ delegate_pc = "lock"
    /\ \E response \in Responses :
        /\ dirk_requests' = Append(dirk_requests,
               Request("Lock", accounts[account_idx].name, "", response))
        /\ delegate_pc' = "account"
        /\ account_idx' = account_idx + 1
    /\ UNCHANGED <<delegate_config, passphrase_idx, signed_messages, verified, write_called,
                   out_file, generate_result, run_result>>

\* Faulty variant: the verification loop drops the result of the verification.
VerifyMessage_unchecked ==
    /\ delegate_pc = "verify"
    /\ verified < Len(signed_messages)
    /\ verified' = verified + 1
    /\ UNCHANGED <<delegate_config, delegate_pc, run_result, account_idx, passphrase_idx,
                   dirk_requests, signed_messages, write_called, out_file, generate_result>>

\* run, one turn of: for message in &signed_messages {
\*     verify_message_signature(message, self.chain)?; }
VerifyMessage ==
    /\ delegate_pc = "verify"
    /\ verified < Len(signed_messages)
    /\ IF verify_message_signature(signed_messages[verified + 1], cmd_chain).kind = "Ok"
       THEN /\ verified' = verified + 1
            /\ UNCHANGED <<delegate_pc, run_result>>
       ELSE /\ delegate_pc' = "done"
            /\ run_result' = "Err"
            /\ UNCHANGED verified
    /\ UNCHANGED <<delegate_config, account_idx, passphrase_idx, dirk_requests,
                   signed_messages, write_called, out_file, generate_result>>

\* run: write_to_file(&self.out, &signed_messages)? after the loop.
WriteToFile ==
    /\ delegate_pc = "verify"
    /\ verified = Len(signed_messages)
    /\ write_called' = TRUE
    /\ \E written \in BOOLEAN :
        /\ out_file' = IF written THEN Some(signed_messages) ELSE out_file
        /\ run_result' = IF written THEN "Ok" ELSE "Err"
    /\ delegate_pc' = "done"
    /\ UNCHANGED <<delegate_config, account_idx, passphrase_idx, dirk_requests,
                   signed_messages, verified, generate_result>>

DelegateNext ==
    \/ Run /\ UNCHANGED <<overflow_checks, pricing_vars, validation_vars, basefee_vars, retry_vars, rpc_vars, constraint_vars, shutdown_vars, metrics_vars>>
    \/ ListAccounts /\ UNCHANGED <<overflow_checks, pricing_vars, validation_vars, basefee_vars, retry_vars, rpc_vars, constraint_vars, shutdown_vars, metrics_vars>>
    \/ NextAccount /\ UNCHANGED <<overflow_checks, pricing_vars, validation_vars, basefee_vars, retry_vars, rpc_vars, constraint_vars, shutdown_vars, metrics_vars>>
    \/ UnlockAccount /\ UNCHANGED <<overflow_checks, pricing_vars, validation_vars, basefee_vars, retry_vars, rpc_vars, constraint_vars, shutdown_vars, metrics_vars>>
    \/ RequestSignature /\ UNCHANGED <<overflow_checks, pricing_vars, validation_vars, basefee_vars, retry_vars, rpc_vars, constraint_vars, shutdown_vars, metrics_vars>>
    \/ LockAccount /\ UNCHANGED <<overflow_checks, pricing_vars, validation_vars, basefee_vars, retry_vars, rpc_vars, constraint_vars, shutdown_vars, metrics_vars>>
    \/ VerifyMessage /\ UNCHANGED <<overflow_checks, pricing_vars, validation_vars, basefee_vars, retry_vars, rpc_vars, constraint_vars, shutdown_vars, metrics_vars>>
    \/ WriteToFile /\ UNCHANGED <<overflow_checks, pricing_vars, validation_vars, basefee_vars, retry_vars, rpc_vars, constraint_vars, shutdown_vars, metrics_vars>>

(***************************************************************************)
(* json_rpc/mod.rs and api/commitments/spec.rs: method dispatch and the    *)
(* rendering of errors                                                     *)
(***************************************************************************)
GET_VERSION_METHOD == "bolt_getVersion"
REQUEST_INCLUSION_METHOD == "bolt_requestInclusion"
GET_METADATA_METHOD == "bolt_metadata"

\* The methods the commitments API declares.
SupportedMethods == {GET_VERSION_METHOD, REQUEST_INCLUSION_METHOD, GET_METADATA_METHOD}

JsonRpcError(code) == [kind |-> "JsonRpcError", code |-> code]
JsonRpcResponse(id, result) == [kind |-> "JsonRpcResponse", jsonrpc |-> "2.0", id |-> id, result |-> result]

\* Faulty variant: every parsed request goes to the inclusion handler.
handle_rpc_request_no_dispatch(req, inclusion) ==
    IF ~req.parses
    THEN [called |-> FALSE, reply |-> JsonRpcError(-32700)]
    ELSE IF inclusion.kind = "Err"
    THEN [called |-> TRUE, reply |-> JsonRpcError(inclusion.code)]
    ELSE [called |-> TRUE, reply |-> JsonRpcResponse(req.id, inclusion.value)]

\* handle_rpc_request followed by handle_rejection, which replies with the
\* JsonRpcError of the rejection. inclusion is what
\* rpc_api.request_inclusion_commitment(req.params) returns when it is called;
\* called says whether it was.
handle_rpc_request(req, inclusion) ==
    IF ~req.parses
    THEN [called |-> FALSE, reply |-> JsonRpcError(-32700)]
    ELSE IF req.method = "bolt_inclusionPreconfirmation"
    THEN IF inclusion.kind = "Err"
         THEN [called |-> TRUE, reply |-> JsonRpcError(inclusion.code)]
         ELSE [called |-> TRUE, reply |-> JsonRpcResponse(req.id, inclusion.value)]
    ELSE [called |-> FALSE, reply |-> JsonRpcError(-32601)]

\* Faulty variant: Validation is rendered with the code of MalformedHeader.
into_response_validation_code(error) ==
    CASE error.kind = "Rejected" -> [status |-> 400, code |-> -32000]
      [] error.kind = "Duplicate" -> [status |-> 400, code |-> -32001]
      [] error.kind = "Internal" -> [status |-> 500, code |-> -32002]
      [] error.kind = "NoAvailablePubkeyForSlot" -> [status |-> 500, code |-> -32008]
      [] error.kind = "NoSignature" -> [status |-> 400, code |-> -32003]
      [] error.kind = "InvalidSignature" -> [status |-> 400, code |-> -32004]
      [] error.kind = "Signature" -> [status |-> 400, code |-> -32005]
      [] error.kind = "Consensus" -> [status |-> 400, code |-> -32006]
      [] error.kind = "Validation" -> [status |-> 400, code |-> -32007]
      [] error.kind = "MalformedHeader" -> [status |-> 400, code |-> -32007]
      [] error.kind = "UnknownMethod" -> [status |-> 400, code |-> -32601]
      [] error.kind = "InvalidJson" -> [status |-> 400, code |-> -32600]

\* CommitmentError::into_response: the HTTP status and the JSON-RPC error code.
into_response(error) ==
    CASE error.kind = "Rejected" -> [status |-> 400, code |-> -32000]
      [] error.kind = "Duplicate" -> [status |-> 400, code |-> -32001]
      [] error.kind = "Internal" -> [status |-> 500, code |-> -32002]
      [] error.kind = "NoAvailablePubkeyForSlot" -> [status |-> 500, code |-> -32008]
      [] error.kind = "NoSignature" -> [status |-> 400, code |-> -32003]
      [] error.kind = "InvalidSignature" -> [status |-> 400, code |-> -32004]
      [] error.kind = "Signature" -> [status |-> 400, code |-> -32005]
      [] error.kind = "Consensus" -> [status |-> 400, code |-> -32006]
      [] error.kind = "Validation" -> [status |-> 400, code |-> -32006]
      [] error.kind = "MalformedHeader" -> [status |-> 400, code |-> -32007]
      [] error.kind = "UnknownMethod" -> [status |-> 400, code |-> -32601]
      [] error.kind = "InvalidJson" -> [status |-> 400, code |-> -32600]

\* ---- the inputs ----
RequestMethods ==
    SupportedMethods \cup {"bolt_inclusionPreconfirmation", "eth_sendRawTransaction", ""}
RequestIds == {"1", "2"}
Requests ==
    {[parses |-> FALSE]}
        \cup [parses : {TRUE}, method : RequestMethods, id : RequestIds]
InclusionResults ==
    {OkValue("commitment"), [kind |-> "Err", code |-> -32000]}

\* CommitmentError, each variant with the payloads it can carry.
ErrorKinds ==
    {"Rejected", "Duplicate", "Internal", "NoAvailablePubkeyForSlot", "NoSignature",
     "InvalidSignature", "Signature", "Consensus", "Validation", "MalformedHeader",
     "UnknownMethod", "InvalidJson"}
PayloadKinds ==
    {"Rejected", "NoAvailablePubkeyForSlot", "InvalidSignature", "Signature", "Consensus",
     "Validation", "InvalidJson"}
CommitmentErrors ==
    [kind : ErrorKinds \ PayloadKinds, payload : {"-"}]
        \cup [kind : PayloadKinds, payload : {"a", "b"}]

\* One request served by the json_rpc server.
HandleRpcRequest ==
    \E req \in Requests :
        \E inclusion \in InclusionResults :
            LET handled == handle_rpc_request(req, inclusion)
            IN rpc_call' = [req |-> req, called |-> handled.called, reply |-> handled.reply]

\* One CommitmentError turned into a response.
IntoResponse ==
    \E error \in CommitmentErrors :
        error_response' = [error |-> error, response |-> into_response(error)]

RpcNext ==
    \/ HandleRpcRequest /\ UNCHANGED <<overflow_checks, pricing_vars, validation_vars, basefee_vars, retry_vars, delegate_vars, error_response, constraint_vars, shutdown_vars, metrics_vars>>
    \/ IntoResponse /\ UNCHANGED <<overflow_checks, pricing_vars, validation_vars, basefee_vars, retry_vars, delegate_vars, rpc_call, constraint_vars, shutdown_vars, metrics_vars>>

(***************************************************************************)
(* primitives/constraint.rs: the constraints message built from an         *)
(* inclusion request or from one transaction.                              *)
(***************************************************************************)
Pubkeys == {"pk1", "pk2"}
Slots == {0, 1, U64_MAX - 1, U64_MAX}
FullTransactions == {"tx1", "tx2", "tx3"}
TransactionLists ==
    {<<>>} \cup {<<a>> : a \in FullTransactions}
           \cup {<<a, b>> : a \in FullTransactions, b \in FullTransactions}

\* The fields of InclusionRequest that build reads.
InclusionRequest(slot, txs) == [slot |-> slot, txs |-> txs]
InclusionRequests == {InclusionRequest(s, l) : s \in Slots, l \in TransactionLists}

ConstraintsMessage(pubkey, slot, top, transactions) ==
    [pubkey |-> pubkey, slot |-> slot, top |-> top, transactions |-> transactions]

\* Faulty variant: the message is marked top-of-block.
build_top(pubkey, request) ==
    ConstraintsMessage(pubkey, request.slot, TRUE, request.txs)

\* Faulty variant: the transactions are taken in reverse order.
build_reversed(pubkey, request) ==
    ConstraintsMessage(pubkey, request.slot, FALSE,
        [i \in 1..Len(request.txs) |-> request.txs[Len(request.txs) + 1 - i]])

\* ConstraintsMessage::build
build(pubkey, request) ==
    LET transactions == request.txs
    IN ConstraintsMessage(pubkey, request.slot, FALSE, transactions)

\* ConstraintsMessage::from_transaction
from_transaction(pubkey, slot, transaction) ==
    ConstraintsMessage(pubkey, slot, FALSE, <<transaction>>)

\* One call of ConstraintsMessage::build.
Build ==
    \E pubkey \in Pubkeys, request \in InclusionRequests :
        constraints_call' = [fn |-> "build", pubkey |-> pubkey, slot |-> request.slot,
                             txs |-> request.txs, message |-> build(pubkey, request)]

\* One call of ConstraintsMessage::from_transaction.
FromTransaction ==
    \E pubkey \in Pubkeys, slot \in Slots, transaction \in FullTransactions :
        constraints_call' = [fn |-> "from_transaction", pubkey |-> pubkey, slot |-> slot,
                             txs |-> <<transaction>>,
                             message |-> from_transaction(pubkey, slot, transaction)]

ConstraintsNext ==
    \/ Build /\ UNCHANGED <<overflow_checks, pricing_vars, validation_vars, basefee_vars, retry_vars, delegate_vars, rpc_vars, shutdown_vars, metrics_vars>>
    \/ FromTransaction /\ UNCHANGED <<overflow_checks, pricing_vars, validation_vars, basefee_vars, retry_vars, delegate_vars, rpc_vars, shutdown_vars, metrics_vars>>

(***************************************************************************)
(* json_rpc/mod.rs, start_server: the shutdown channel mpsc::channel(1),   *)
(* the sender handed to the caller and the graceful-shutdown future        *)
(* `shutdown_rx.recv().await; rpc_api.shutdown();` polled by the spawned   *)
(* server task.                                                            *)
(***************************************************************************)
MaxSenders == 3
MaxEvents == 5

\* mpsc::channel(1)
channel_capacity == 1

\* Faulty variant: the receive completes whether or not a value is queued.
recv_ready_always(queued, live_senders) == TRUE

\* Faulty variant: the receive ignores a channel closed by its senders.
recv_ready_ignores_close(queued, live_senders) == queued > 0

\* shutdown_rx.recv(): ready with Some(()) when a value is queued, and with
\* None when the queue is empty and every sender has been dropped.
recv_ready(queued, live_senders) == queued > 0 \/ live_senders = 0

Logged(event) == \E i \in 1..Len(events) : events[i] = event

\* The caller sends the shutdown signal: shutdown_tx.send(()).
Send ==
    /\ senders > 0
    /\ Len(events) < MaxEvents
    /\ receiver # "done"
    /\ buffered < channel_capacity
    /\ buffered' = buffered + 1
    /\ events' = Append(events, "send")
    /\ UNCHANGED <<senders, receiver, shutdown_calls>>

\* A send after the receiver was dropped fails with SendError.
SendClosed ==
    /\ senders > 0
    /\ Len(events) < MaxEvents
    /\ receiver = "done"
    /\ events' = Append(events, "send_err")
    /\ UNCHANGED <<senders, buffered, receiver, shutdown_calls>>

\* shutdown_tx.clone()
CloneSender ==
    /\ senders > 0
    /\ senders < MaxSenders
    /\ Len(events) < MaxEvents
    /\ senders' = senders + 1
    /\ events' = Append(events, "clone")
    /\ UNCHANGED <<buffered, receiver, shutdown_calls>>

\* One copy of the sender goes out of scope.
DropSender ==
    /\ senders > 0
    /\ Len(events) < MaxEvents
    /\ senders' = senders - 1
    /\ events' = Append(events, "drop")
    /\ UNCHANGED <<buffered, receiver, shutdown_calls>>

\* shutdown_fn: shutdown_rx.recv().await completes.
Recv ==
    /\ receiver = "waiting"
    /\ recv_ready(buffered, senders)
    /\ receiver' = "received"
    /\ buffered' = IF buffered > 0 THEN buffered - 1 ELSE buffered
    /\ events' = Append(events, IF buffered > 0 THEN "recv_some" ELSE "recv_none")
    /\ UNCHANGED <<senders, shutdown_calls>>

\* shutdown_fn: rpc_api.shutdown(); the future ends and drops shutdown_rx.
Shutdown ==
    /\ receiver = "received"
    /\ receiver' = "done"
    /\ shutdown_calls' = shutdown_calls + 1
    /\ buffered' = 0
    /\ UNCHANGED <<senders, events>>

ShutdownNext ==
    \/ Send /\ UNCHANGED <<overflow_checks, pricing_vars, validation_vars, basefee_vars, retry_vars, delegate_vars, rpc_vars, constraint_vars, metrics_vars>>
    \/ SendClosed /\ UNCHANGED <<overflow_checks, pricing_vars, validation_vars, basefee_vars, retry_vars, delegate_vars, rpc_vars, constraint_vars, metrics_vars>>
    \/ CloneSender /\ UNCHANGED <<overflow_checks, pricing_vars, validation_vars, basefee_vars, retry_vars, delegate_vars, rpc_vars, constraint_vars, metrics_vars>>
    \/ DropSender /\ UNCHANGED <<overflow_checks, pricing_vars, validation_vars, basefee_vars, retry_vars, delegate_vars, rpc_vars, constraint_vars, metrics_vars>>
    \/ Recv /\ UNCHANGED <<overflow_checks, pricing_vars, validation_vars, basefee_vars, retry_vars, delegate_vars, rpc_vars, constraint_vars, metrics_vars>>
    \/ Shutdown /\ UNCHANGED <<overflow_checks, pricing_vars, validation_vars, basefee_vars, retry_vars, delegate_vars, rpc_vars, constraint_vars, metrics_vars>>

(***************************************************************************)
(* telemetry/metrics.rs, increment_gross_tip_revenue: a tip above u64::MAX *)
(* is split into parts collected in a Vec, then each part is added to the  *)
(* counter.                                                                *)
(***************************************************************************)
\* The most elements a Vec<u64> can hold: its buffer is at most isize::MAX
\* bytes and grows by doubling, so 2^59 elements against the 2^64 parts that
\* the largest tip needs; the ratio 2^-5 is kept at the scaled widths.
vec_limit == 2 ^ (U128Bits - U64Bits - 5)

Tips ==
    {0, 1, U64_MAX - 1, U64_MAX, U64_MAX + 1, 2 * U64_MAX, 2 * U64_MAX + 1,
     3 * U64_MAX + 2, vec_limit * U64_MAX, vec_limit * U64_MAX + 1,
     U128_MAX - 1, U128_MAX}

\* increment_gross_tip_revenue(tip) is entered.
IncrementGrossTipRevenue ==
    /\ metrics_pc \in {"idle", "done", "panicked"}
    /\ \E t \in Tips :
        /\ tip_arg' = t
        /\ tip' = t
        /\ metrics_pc' = IF t > U64_MAX THEN "split" ELSE "single"
    /\ parts' = <<>>
    /\ increments' = <<>>

\* else branch: counter!(GROSS_TIP_REVENUE).increment(tip as u64)
IncrementSingle ==
    /\ metrics_pc = "single"
    /\ increments' = Append(increments, tip % 2 ^ U64Bits)
    /\ metrics_pc' = "done"
    /\ UNCHANGED <<tip_arg, tip, parts>>

\* One turn of `while tip > u64::MAX as u128`, or the push after the loop;
\* a push onto a Vec that cannot grow panics with "capacity overflow".
Split ==
    /\ metrics_pc = "split"
    /\ IF Len(parts) >= vec_limit
       THEN /\ metrics_pc' = "panicked"
            /\ UNCHANGED <<tip, parts>>
       ELSE IF tip > U64_MAX
       THEN /\ parts' = Append(parts, U64_MAX)
            /\ tip' = tip - U64_MAX
            /\ UNCHANGED metrics_pc
       ELSE /\ parts' = Append(parts, tip % 2 ^ U64Bits)
            /\ metrics_pc' = "increment"
            /\ UNCHANGED tip
    /\ UNCHANGED <<tip_arg, increments>>

\* One turn of `for part in parts`.
IncrementPart ==
    /\ metrics_pc = "increment"
    /\ IF parts = <<>>
       THEN /\ metrics_pc' = "done"
            /\ UNCHANGED <<parts, increments>>
       ELSE /\ increments' = Append(increments, Head(parts))
            /\ parts' = Tail(parts)
            /\ UNCHANGED metrics_pc
    /\ UNCHANGED <<tip_arg, tip>>

MetricsNext ==
    \/ IncrementGrossTipRevenue /\ UNCHANGED <<overflow_checks, pricing_vars, validation_vars, basefee_vars, retry_vars, delegate_vars, rpc_vars, constraint_vars, shutdown_vars>>
    \/ IncrementSingle /\ UNCHANGED <<overflow_checks, pricing_vars, validation_vars, basefee_vars, retry_vars, delegate_vars, rpc_vars, constraint_vars, shutdown_vars>>
    \/ Split /\ UNCHANGED <<overflow_checks, pricing_vars, validation_vars, basefee_vars, retry_vars, delegate_vars, rpc_vars, constraint_vars, shutdown_vars>>
    \/ IncrementPart /\ UNCHANGED <<overflow_checks, pricing_vars, validation_vars, basefee_vars, retry_vars, delegate_vars, rpc_vars, constraint_vars, shutdown_vars>>

(***************************************************************************)
(* Specifications: one per group of operations; the variables of the other *)
(* groups keep their initial values.                                       *)
(***************************************************************************)
\* PreconfPricing::new(block_gas_limit) and an empty slot.
PricingInit ==
    /\ overflow_checks = FALSE
    /\ block_gas_limit \in 1..MaxBlockGasLimit
    /\ preconfirmed_gas = 0
    /\ admitted_gas = <<>>
    /\ fee_result = None
    /\ initial_count = 0
    /\ account_state = [transaction_count |-> 0, balance |-> 0, has_code |-> FALSE]
    /\ admitted_nonces = <<>>
    /\ validation = None
    /\ basefee_call = None
    /\ max_retries = 0
    /\ fail_until = 0
    /\ count = 0
    /\ backoff_left = 0
    /\ retry_pc = "done"
    /\ retry_result = "none"
    /\ backoff_current = 0
    /\ waits = <<>>
    /\ source = "SecretKeys"
    /\ cmd_action = "Delegate"
    /\ cmd_chain = "Mainnet"
    /\ secrets = <<>>
    /\ accounts = <<>>
    /\ passphrases = None
    /\ delegate_pc = "done"
    /\ account_idx = 0
    /\ passphrase_idx = 0
    /\ dirk_requests = <<>>
    /\ signed_messages = <<>>
    /\ verified = 0
    /\ write_called = FALSE
    /\ out_file = None
    /\ generate_result = "none"
    /\ run_result = "none"
    /\ rpc_call = None
    /\ error_response = None
    /\ constraints_call = None
    /\ senders = 0
    /\ buffered = 0
    /\ receiver = "idle"
    /\ shutdown_calls = 0
    /\ events = <<>>
    /\ tip_arg = 0
    /\ tip = 0
    /\ parts = <<>>
    /\ increments = <<>>
    /\ metrics_pc = "idle"

\* The sender's cached AccountState before the first admission.
ValidationInit ==
    /\ overflow_checks \in BOOLEAN
    /\ block_gas_limit = 1
    /\ preconfirmed_gas = 0
    /\ admitted_gas = <<>>
    /\ fee_result = None
    /\ initial_count \in 0..MaxInitialCount
    /\ account_state \in [transaction_count : {initial_count}, balance : Balances,
                          has_code : BOOLEAN]
    /\ admitted_nonces = <<>>
    /\ validation = None
    /\ basefee_call = None
    /\ max_retries = 0
    /\ fail_until = 0
    /\ count = 0
    /\ backoff_left = 0
    /\ retry_pc = "done"
    /\ retry_result = "none"
    /\ backoff_current = 0
    /\ waits = <<>>
    /\ source = "SecretKeys"
    /\ cmd_action = "Delegate"
    /\ cmd_chain = "Mainnet"
    /\ secrets = <<>>
    /\ accounts = <<>>
    /\ passphrases = None
    /\ delegate_pc = "done"
    /\ account_idx = 0
    /\ passphrase_idx = 0
    /\ dirk_requests = <<>>
    /\ signed_messages = <<>>
    /\ verified = 0
    /\ write_called = FALSE
    /\ out_file = None
    /\ generate_result = "none"
    /\ run_result = "none"
    /\ rpc_call = None
    /\ error_response = None
    /\ constraints_call = None
    /\ senders = 0
    /\ buffered = 0
    /\ receiver = "idle"
    /\ shutdown_calls = 0
    /\ events = <<>>
    /\ tip_arg = 0
    /\ tip = 0
    /\ parts = <<>>
    /\ increments = <<>>
    /\ metrics_pc = "idle"

BasefeeInit ==
    /\ overflow_checks \in BOOLEAN
    /\ block_gas_limit = 1
    /\ preconfirmed_gas = 0
    /\ admitted_gas = <<>>
    /\ fee_result = None
    /\ initial_count = 0
    /\ account_state = [transaction_count |-> 0, balance |-> 0, has_code |-> FALSE]
    /\ admitted_nonces = <<>>
    /\ validation = None
    /\ basefee_call = None
    /\ max_retries = 0
    /\ fail_until = 0
    /\ count = 0
    /\ backoff_left = 0
    /\ retry_pc = "done"
    /\ retry_result = "none"
    /\ backoff_current = 0
    /\ waits = <<>>
    /\ source = "SecretKeys"
    /\ cmd_action = "Delegate"
    /\ cmd_chain = "Mainnet"
    /\ secrets = <<>>
    /\ accounts = <<>>
    /\ passphrases = None
    /\ delegate_pc = "done"
    /\ account_idx = 0
    /\ passphrase_idx = 0
    /\ dirk_requests = <<>>
    /\ signed_messages = <<>>
    /\ verified = 0
    /\ write_called = FALSE
    /\ out_file = None
    /\ generate_result = "none"
    /\ run_result = "none"
    /\ rpc_call = None
    /\ error_response = None
    /\ constraints_call = None
    /\ senders = 0
    /\ buffered = 0
    /\ receiver = "idle"
    /\ shutdown_calls = 0
    /\ events = <<>>
    /\ tip_arg = 0
    /\ tip = 0
    /\ parts = <<>>
    /\ increments = <<>>
    /\ metrics_pc = "idle"

\* retry_with_backoff(max_retries, fut) entered: the backoff iterator holds
\* max_retries delays and fut has not been invoked.
RetryInit ==
    /\ overflow_checks = FALSE
    /\ block_gas_limit = 1
    /\ preconfirmed_gas = 0
    /\ admitted_gas = <<>>
    /\ fee_result = None
    /\ initial_count = 0
    /\ account_state = [transaction_count |-> 0, balance |-> 0, has_code |-> FALSE]
    /\ admitted_nonces = <<>>
    /\ validation = None
    /\ basefee_call = None
    /\ max_retries \in 0..MaxRetries
    /\ fail_until \in 0..MaxFailUntil
    /\ count = 0
    /\ backoff_left = backoff_take(max_retries)
    /\ retry_pc = "call"
    /\ retry_result = "none"
    /\ backoff_current = backoff_base
    /\ waits = <<>>
    /\ source = "SecretKeys"
    /\ cmd_action = "Delegate"
    /\ cmd_chain = "Mainnet"
    /\ secrets = <<>>
    /\ accounts = <<>>
    /\ passphrases = None
    /\ delegate_pc = "done"
    /\ account_idx = 0
    /\ passphrase_idx = 0
    /\ dirk_requests = <<>>
    /\ signed_messages = <<>>
    /\ verified = 0
    /\ write_called = FALSE
    /\ out_file = None
    /\ generate_result = "none"
    /\ run_result = "none"
    /\ rpc_call = None
    /\ error_response = None
    /\ constraints_call = None
    /\ senders = 0
    /\ buffered = 0
    /\ receiver = "idle"
    /\ shutdown_calls = 0
    /\ events = <<>>
    /\ tip_arg = 0
    /\ tip = 0
    /\ parts = <<>>
    /\ increments = <<>>
    /\ metrics_pc = "idle"

\* The delegate command before run is called: nothing is generated or written.
DelegateInit ==
    /\ overflow_checks = FALSE
    /\ block_gas_limit = 1
    /\ preconfirmed_gas = 0
    /\ admitted_gas = <<>>
    /\ fee_result = None
    /\ initial_count = 0
    /\ account_state = [transaction_count |-> 0, balance |-> 0, has_code |-> FALSE]
    /\ admitted_nonces = <<>>
    /\ validation = None
    /\ basefee_call = None
    /\ max_retries = 0
    /\ fail_until = 0
    /\ count = 0
    /\ backoff_left = 0
    /\ retry_pc = "done"
    /\ retry_result = "none"
    /\ backoff_current = 0
    /\ waits = <<>>
    /\ source \in Sources
    /\ cmd_action \in Actions
    /\ cmd_chain \in Chains
    /\ secrets \in (IF source = "Dirk" THEN {<<>>} ELSE SecretLists)
    /\ accounts \in (IF source = "Dirk" THEN AccountLists ELSE {<<>>})
    /\ passphrases \in (IF source = "Dirk" THEN PassphraseLists ELSE {None})
    /\ delegate_pc = "run"
    /\ account_idx = 0
    /\ passphrase_idx = 0
    /\ dirk_requests = <<>>
    /\ signed_messages = <<>>
    /\ verified = 0
    /\ write_called = FALSE
    /\ out_file = None
    /\ generate_result = "none"
    /\ run_result = "none"
    /\ rpc_call = None
    /\ error_response = None
    /\ constraints_call = None
    /\ senders = 0
    /\ buffered = 0
    /\ receiver = "idle"
    /\ shutdown_calls = 0
    /\ events = <<>>
    /\ tip_arg = 0
    /\ tip = 0
    /\ parts = <<>>
    /\ increments = <<>>
    /\ metrics_pc = "idle"

\* The RPC server before the first request.
RpcInit ==
    /\ overflow_checks = FALSE
    /\ block_gas_limit = 1
    /\ preconfirmed_gas = 0
    /\ admitted_gas = <<>>
    /\ fee_result = None
    /\ initial_count = 0
    /\ account_state = [transaction_count |-> 0, balance |-> 0, has_code |-> FALSE]
    /\ admitted_nonces = <<>>
    /\ validation = None
    /\ basefee_call = None
    /\ max_retries = 0
    /\ fail_until = 0
    /\ count = 0
    /\ backoff_left = 0
    /\ retry_pc = "done"
    /\ retry_result = "none"
    /\ backoff_current = 0
    /\ waits = <<>>
    /\ source = "SecretKeys"
    /\ cmd_action = "Delegate"
    /\ cmd_chain = "Mainnet"
    /\ secrets = <<>>
    /\ accounts = <<>>
    /\ passphrases = None
    /\ delegate_pc = "done"
    /\ account_idx = 0
    /\ passphrase_idx = 0
    /\ dirk_requests = <<>>
    /\ signed_messages = <<>>
    /\ verified = 0
    /\ write_called = FALSE
    /\ out_file = None
    /\ generate_result = "none"
    /\ run_result = "none"
    /\ rpc_call = None
    /\ error_response = None
    /\ constraints_call = None
    /\ senders = 0
    /\ buffered = 0
    /\ receiver = "idle"
    /\ shutdown_calls = 0
    /\ events = <<>>
    /\ tip_arg = 0
    /\ tip = 0
    /\ parts = <<>>
    /\ increments = <<>>
    /\ metrics_pc = "idle"

SpecPricing == PricingInit /\ [][PricingNext]_vars

SpecValidation == ValidationInit /\ [][ValidationNext]_vars

SpecBasefee == BasefeeInit /\ [][BasefeeNext]_vars

SpecRetry == RetryInit /\ [][RetryNext]_vars

\* The runtime keeps polling the future and its timers fire.
SpecRetryFair == SpecRetry /\ WF_vars(RetryNext)

SpecDelegate == DelegateInit /\ [][DelegateNext]_vars

SpecRpc == RpcInit /\ [][RpcNext]_vars

\* No constraints message has been built.
ConstraintsInit ==
    /\ overflow_checks = FALSE
    /\ block_gas_limit = 1
    /\ preconfirmed_gas = 0
    /\ admitted_gas = <<>>
    /\ fee_result = None
    /\ initial_count = 0
    /\ account_state = [transaction_count |-> 0, balance |-> 0, has_code |-> FALSE]
    /\ admitted_nonces = <<>>
    /\ validation = None
    /\ basefee_call = None
    /\ max_retries = 0
    /\ fail_until = 0
    /\ count = 0
    /\ backoff_left = 0
    /\ retry_pc = "done"
    /\ retry_result = "none"
    /\ backoff_current = 0
    /\ waits = <<>>
    /\ source = "SecretKeys"
    /\ cmd_action = "Delegate"
    /\ cmd_chain = "Mainnet"
    /\ secrets = <<>>
    /\ accounts = <<>>
    /\ passphrases = None
    /\ delegate_pc = "done"
    /\ account_idx = 0
    /\ passphrase_idx = 0
    /\ dirk_requests = <<>>
    /\ signed_messages = <<>>
    /\ verified = 0
    /\ write_called = FALSE
    /\ out_file = None
    /\ generate_result = "none"
    /\ run_result = "none"
    /\ rpc_call = None
    /\ error_response = None
    /\ constraints_call = None
    /\ senders = 0
    /\ buffered = 0
    /\ receiver = "idle"
    /\ shutdown_calls = 0
    /\ events = <<>>
    /\ tip_arg = 0
    /\ tip = 0
    /\ parts = <<>>
    /\ increments = <<>>
    /\ metrics_pc = "idle"

SpecConstraints == ConstraintsInit /\ [][ConstraintsNext]_vars

\* start_server has returned shutdown_tx; the server task waits in recv().
ShutdownInit ==
    /\ overflow_checks = FALSE
    /\ block_gas_limit = 1
    /\ preconfirmed_gas = 0
    /\ admitted_gas = <<>>
    /\ fee_result = None
    /\ initial_count = 0
    /\ account_state = [transaction_count |-> 0, balance |-> 0, has_code |-> FALSE]
    /\ admitted_nonces = <<>>
    /\ validation = None
    /\ basefee_call = None
    /\ max_retries = 0
    /\ fail_until = 0
    /\ count = 0
    /\ backoff_left = 0
    /\ retry_pc = "done"
    /\ retry_result = "none"
    /\ backoff_current = 0
    /\ waits = <<>>
    /\ source = "SecretKeys"
    /\ cmd_action = "Delegate"
    /\ cmd_chain = "Mainnet"
    /\ secrets = <<>>
    /\ accounts = <<>>
    /\ passphrases = None
    /\ delegate_pc = "done"
    /\ account_idx = 0
    /\ passphrase_idx = 0
    /\ dirk_requests = <<>>
    /\ signed_messages = <<>>
    /\ verified = 0
    /\ write_called = FALSE
    /\ out_file = None
    /\ generate_result = "none"
    /\ run_result = "none"
    /\ rpc_call = None
    /\ error_response = None
    /\ constraints_call = None
    /\ senders = 1
    /\ buffered = 0
    /\ receiver = "waiting"
    /\ shutdown_calls = 0
    /\ events = <<>>
    /\ tip_arg = 0
    /\ tip = 0
    /\ parts = <<>>
    /\ increments = <<>>
    /\ metrics_pc = "idle"

SpecShutdown == ShutdownInit /\ [][ShutdownNext]_vars

\* The runtime polls the spawned server task whenever the channel wakes it.
SpecShutdownFair ==
    /\ SpecShutdown
    /\ WF_vars(Recv /\ UNCHANGED <<overflow_checks, pricing_vars, validation_vars, basefee_vars, retry_vars, delegate_vars, rpc_vars, constraint_vars, metrics_vars>>)
    /\ WF_vars(Shutdown /\ UNCHANGED <<overflow_checks, pricing_vars, validation_vars, basefee_vars, retry_vars, delegate_vars, rpc_vars, constraint_vars, metrics_vars>>)

\* No tip has been recorded.
MetricsInit ==
    /\ overflow_checks = FALSE
    /\ block_gas_limit = 1
    /\ preconfirmed_gas = 0
    /\ admitted_gas = <<>>
    /\ fee_result = None
    /\ initial_count = 0
    /\ account_state = [transaction_count |-> 0, balance |-> 0, has_code |-> FALSE]
    /\ admitted_nonces = <<>>
    /\ validation = None
    /\ basefee_call = None
    /\ max_retries = 0
    /\ fail_until = 0
    /\ count = 0
    /\ backoff_left = 0
    /\ retry_pc = "done"
    /\ retry_result = "none"
    /\ backoff_current = 0
    /\ waits = <<>>
    /\ source = "SecretKeys"
    /\ cmd_action = "Delegate"
    /\ cmd_chain = "Mainnet"
    /\ secrets = <<>>
    /\ accounts = <<>>
    /\ passphrases = None
    /\ delegate_pc = "done"
    /\ account_idx = 0
    /\ passphrase_idx = 0
    /\ dirk_requests = <<>>
    /\ signed_messages = <<>>
    /\ verified = 0
    /\ write_called = FALSE
    /\ out_file = None
    /\ generate_result = "none"
    /\ run_result = "none"
    /\ rpc_call = None
    /\ error_response = None
    /\ constraints_call = None
    /\ senders = 0
    /\ buffered = 0
    /\ receiver = "idle"
    /\ shutdown_calls = 0
    /\ events = <<>>
    /\ tip_arg = 0
    /\ tip = 0
    /\ parts = <<>>
    /\ increments = <<>>
    /\ metrics_pc = "idle"

SpecMetrics == MetricsInit /\ [][MetricsNext]_vars

(***************************************************************************)
(* Claims about validate_transaction and max_transaction_cost.             *)
(***************************************************************************)
Validated == validation.kind \in {"Validation", "Admission"}

\* The cost validate_transaction compares with the balance: the value
\* max_transaction_cost returns (none when it panics).
CostIs(tx, P(_)) ==
    LET cost == max_transaction_cost(tx) IN cost.kind = "Value" /\ P(cost.value)

C7_CostFormula ==
    validation.kind = "Cost" =>
        LET tx == validation.tx
            blob_part == IF tx.blob.kind = "Some"
                         THEN tx.blob.value.max_fee_per_blob_gas + tx.blob.value.blob_gas
                         ELSE 0
            fee_cap == tx.max_fee_per_gas + unwrap_or(tx.max_priority_fee_per_gas, 0)
                       + blob_part
        IN validation.result = Value(tx.gas_limit * fee_cap + tx.value)

(***************************************************************************)
(* Claims about calculate_max_basefee.                                     *)
(***************************************************************************)
\* The exact sequence b_0 = b0, b_{i+1} = floor(b_i * 1125 / 1000) + 1.
RECURSIVE Projected(_, _)
Projected(b0, i) == IF i = 0 THEN b0 ELSE ((Projected(b0, i - 1) * 1125) \div 1000) + 1

\* C8: calculate_max_basefee(b0, n) returns Some(b_n); it returns None exactly
\* when some step i < n has b_i * 1125 above the largest u128 value; it never
\* wraps or panics, and for n = 0 it returns Some(b0).
C8_BasefeeProjection ==
    basefee_call # None =>
        LET b0 == basefee_call.current
            n == basefee_call.block_diff
            overflows == \E i \in 0..(n - 1) : Projected(b0, i) * 1125 > U128_MAX
        IN /\ (basefee_call.result = None) <=> overflows
           /\ ~overflows => basefee_call.result = Some(Projected(b0, n))
           /\ n = 0 => basefee_call.result = Some(b0)

\* C8 witness: the first step fits and a later step overflows.
C8_Witness ==
    /\ basefee_call # None
    /\ basefee_call.current * 1125 <= U128_MAX
    /\ basefee_call.current > 0
    /\ basefee_call.result = None

(***************************************************************************)
(* Claims about retry_with_backoff.                                        *)
(***************************************************************************)
\* C9: when the operation fails on its first k calls and succeeds on call k+1,
\* with k <= max_retries, retry_with_backoff returns Ok after invoking it
\* exactly k+1 times; it is never invoked after its first success.
C9_RetryUntilSuccess ==
    fail_until <= max_retries =>
        /\ count <= fail_until + 1
        /\ retry_pc = "done" => (retry_result = "Ok" /\ count = fail_until + 1)
        /\ retry_result = "Ok" => retry_pc = "done"
        /\ retry_result # "Err"

\* C9 witness: three failures, success on the fourth call, max_retries = 5.
C9_Witness ==
    /\ max_retries = 5
    /\ fail_until = 3
    /\ retry_pc = "done"
    /\ retry_result = "Ok"
    /\ count = 4

\* C10: when the operation fails on more than max_retries consecutive calls,
\* retry_with_backoff terminates with Err after invoking it exactly
\* max_retries + 1 times, and never invokes it more often.
C10_RetriesExhausted ==
    /\ [](fail_until > max_retries =>
            /\ count <= max_retries + 1
            /\ retry_pc = "done" => (retry_result = "Err" /\ count = max_retries + 1)
            /\ retry_result # "Ok")
    /\ (fail_until > max_retries => <>(retry_pc = "done"))

\* C10 witness: max_retries = 3, the operation fails five times: Err after the
\* fourth call.
C10_Witness ==
    /\ max_retries = 3
    /\ fail_until = 5
    /\ retry_pc = "done"
    /\ retry_result = "Err"
    /\ count = 4

(***************************************************************************)
(* Claims about the delegate command.                                      *)
(***************************************************************************)
AllVerify(messages) ==
    \A i \in 1..Len(messages) : verify_message_signature(messages[i], cmd_chain) = Ok

\* C11: the output file is written only after every generated message passed
\* verify_message_signature for the configured chain: write_to_file is called
\* only when generation succeeded and all messages verify, the file holds
\* exactly the generated messages, and a run in which one message fails the
\* verification ends with an error without write_to_file being called.
C11_WriteAfterVerification ==
    /\ write_called =>
        /\ generate_result = "Ok"
        /\ verified = Len(signed_messages)
        /\ AllVerify(signed_messages)
    /\ out_file # None =>
        /\ out_file = Some(signed_messages)
        /\ AllVerify(signed_messages)
        /\ run_result = "Ok"
    /\ (delegate_pc = "done" /\ ~AllVerify(signed_messages)) =>
        /\ run_result = "Err"
        /\ ~write_called
        /\ out_file = None

\* A run whose generation succeeded with two messages, the second of which
\* does not verify: it ended with an error and nothing was written.
C11_Witness ==
    /\ delegate_pc = "done"
    /\ generate_result = "Ok"
    /\ Len(signed_messages) = 2
    /\ verified = 1
    /\ verify_message_signature(signed_messages[2], cmd_chain) = Err
    /\ run_result = "Err"
    /\ ~write_called

\* C12: every message generate_from_local_keys produces carries the public key
\* of its secret key as validator_pubkey and that key's signature over the
\* commit-boost signing root of the message digest, and
\* verify_message_signature accepts it for the same chain (and not for another
\* chain), for the Delegate and the Revoke action.
C12_LocalKeysVerify ==
    /\ \A sk \in {[secret |-> "sk1"], [secret |-> "sk2"]} :
        \A delegatee \in {delegatee_pubkey, public_key(sk)} :
            \A chain \in Chains :
                \A act \in Actions :
                    LET signed == local_signed_message(sk, delegatee, chain, act)
                    IN /\ verify_message_signature(signed, chain) = Ok
                       /\ \A other \in Chains \ {chain} :
                            verify_message_signature(signed, other) = Err
    /\ (source = "SecretKeys" /\ generate_result = "Ok") =>
        /\ Len(signed_messages) = Len(secrets)
        /\ \A i \in 1..Len(secrets) :
            LET sk == BlsSecretKey_try_from(secrets[i]).value
                signed == signed_messages[i]
            IN /\ signed.kind = (IF cmd_action = "Delegate" THEN "Delegation" ELSE "Revocation")
               /\ signed.message.validator_pubkey = public_key(sk)
               /\ signed.message.delegatee_pubkey = delegatee_pubkey
               /\ signed.signature =
                    sign(sk, compute_commit_boost_signing_root(digest(signed.message), cmd_chain))
               /\ verify_message_signature(signed, cmd_chain) = Ok

\* Two revocations signed with inline keys for Holesky, both verified.
C12_Witness ==
    /\ source = "SecretKeys"
    /\ cmd_action = "Revoke"
    /\ cmd_chain = "Holesky"
    /\ generate_result = "Ok"
    /\ Len(signed_messages) = 2
    /\ verified = 2

\* ---- the requests sent to the remote signer ----
\* How many Lock requests are among the first j requests.
LockCount(j) == Cardinality({k \in 1..j : dirk_requests[k].op = "Lock"})

\* The listed account of this name.
AccountNamed(name) == CHOOSE a \in {accounts[i] : i \in 1..Len(accounts)} : a.name = name

\* The position of request j in the run of Unlock requests for its account.
RECURSIVE UnlockTurn(_)
UnlockTurn(j) ==
    IF /\ j > 1
       /\ dirk_requests[j - 1].op = "Unlock"
       /\ dirk_requests[j - 1].account = dirk_requests[j].account
    THEN UnlockTurn(j - 1) + 1
    ELSE 1

\* C13: per account the requests are Unlock, Sign, Lock: a Sign follows an
\* Unlock of the same account that returned Succeeded, a Lock follows the
\* Sign of the same account that returned the signature now held in
\* signed_messages, and the first request for another account is an Unlock
\* that follows the Lock of the previous account.
C13_UnlockSignLock ==
    \A j \in 1..Len(dirk_requests) :
        LET r == dirk_requests[j]
        IN /\ r.op = "ListAccounts" <=> j = 1
           /\ r.op = "Sign" =>
                /\ dirk_requests[j - 1].op = "Unlock"
                /\ dirk_requests[j - 1].account = r.account
                /\ dirk_requests[j - 1].state = "Succeeded"
           /\ r.op = "Lock" =>
                /\ dirk_requests[j - 1].op = "Sign"
                /\ dirk_requests[j - 1].account = r.account
                /\ dirk_requests[j - 1].state = "Succeeded"
                /\ LockCount(j) <= Len(signed_messages)
                /\ signed_messages[LockCount(j)].message.validator_pubkey
                       = AccountNamed(r.account).public_key
           /\ (j > 2 /\ dirk_requests[j - 1].account # r.account) =>
                /\ dirk_requests[j - 1].op = "Lock"
                /\ r.op = "Unlock"
           /\ (j = 2) => r.op = "Unlock"

\* Both accounts were unlocked, signed with and locked, one after the other.
C13_Witness ==
    /\ Len(dirk_requests) >= 7
    /\ \E j \in 2..Len(dirk_requests) - 3 :
        /\ dirk_requests[j].op = "Lock"
        /\ dirk_requests[j].account = "wallet/1"
        /\ dirk_requests[j + 1].op = "Unlock"
        /\ dirk_requests[j + 1].account = "wallet/2"
        /\ dirk_requests[j + 2].op = "Sign"
        /\ dirk_requests[j + 3].op = "Lock"

\* C14: the Unlock requests of an account carry the passphrases in list
\* order; a Denied response is followed by the next passphrase, or by an error
\* when it was the last one; a Succeeded response is followed by the Sign
\* request, never by another Unlock; with an empty passphrase list no Unlock
\* is sent and the first listed account ends the generation with an error.
C14_PassphraseOrder ==
    /\ \A j \in 1..Len(dirk_requests) :
        LET r == dirk_requests[j]
            k == UnlockTurn(j)
            last == (j = Len(dirk_requests))
        IN r.op = "Unlock" =>
            /\ passphrases # None
            /\ k <= Len(passphrases.value)
            /\ r.passphrase = passphrases.value[k]
            /\ dirk_requests[j - 1].op = "Unlock" =>
                /\ dirk_requests[j - 1].account = r.account
                /\ dirk_requests[j - 1].state = "Denied"
            /\ (r.state = "Denied" /\ k < Len(passphrases.value)) =>
                IF last
                THEN delegate_pc = "unlock" /\ passphrase_idx = k + 1
                ELSE /\ dirk_requests[j + 1].op = "Unlock"
                     /\ dirk_requests[j + 1].account = r.account
                     /\ dirk_requests[j + 1].passphrase = passphrases.value[k + 1]
            /\ (r.state = "Denied" /\ k = Len(passphrases.value)) =>
                /\ last
                /\ delegate_pc = "done"
                /\ generate_result = "Err"
            /\ r.state = "Succeeded" =>
                IF last
                THEN delegate_pc = "sign"
                ELSE dirk_requests[j + 1].op = "Sign"
    /\ passphrases = Some(<<>>) =>
        /\ \A j \in 1..Len(dirk_requests) : dirk_requests[j].op = "ListAccounts"
        /\ delegate_pc \notin {"unlock", "sign", "lock"}
        /\ (generate_result = "Ok" => accounts = <<>>)
        /\ (/\ delegate_pc = "done"
            /\ accounts # <<>>
            /\ dirk_requests # <<>>
            /\ dirk_requests[1].state = "Succeeded") => generate_result = "Err"

\* The first passphrase was Denied, the second Succeeded and the Sign request
\* followed.
C14_Witness ==
    /\ passphrases = Some(<<"p1", "p2">>)
    /\ \E j \in 2..Len(dirk_requests) - 2 :
        /\ dirk_requests[j].op = "Unlock"
        /\ dirk_requests[j].passphrase = "p1"
        /\ dirk_requests[j].state = "Denied"
        /\ dirk_requests[j + 1].op = "Unlock"
        /\ dirk_requests[j + 1].passphrase = "p2"
        /\ dirk_requests[j + 1].state = "Succeeded"
        /\ dirk_requests[j + 2].op = "Sign"

\* C15: an Unlock response Unknown or Failed is the last request of the
\* session (no further passphrase, no Sign for this or a later account);
\* generate_from_dirk and the command return an error and the messages
\* signed so far are not written.
C15_UnlockHardFailure ==
    \A j \in 1..Len(dirk_requests) :
        (dirk_requests[j].op = "Unlock" /\ dirk_requests[j].state \in {"Unknown", "Failed"}) =>
            /\ j = Len(dirk_requests)
            /\ delegate_pc = "done"
            /\ generate_result = "Err"
            /\ run_result = "Err"
            /\ ~write_called
            /\ out_file = None

\* The second account's first passphrase got Failed while a second passphrase
\* was left and the first account's message was already signed.
C15_Witness ==
    /\ passphrases = Some(<<"p1", "p2">>)
    /\ Len(signed_messages) = 1
    /\ Len(dirk_requests) >= 5
    /\ dirk_requests[Len(dirk_requests)].op = "Unlock"
    /\ dirk_requests[Len(dirk_requests)].account = "wallet/2"
    /\ dirk_requests[Len(dirk_requests)].passphrase = "p1"
    /\ dirk_requests[Len(dirk_requests)].state = "Failed"
    /\ generate_result = "Err"

\* C16: whatever a Lock request returns, the account's signed message stays
\* in signed_messages and the generation goes on: after a Lock it fails only
\* on the next account (here: its public key does not parse), and once every
\* listed account was signed with and locked it returned Ok with one message
\* per listed account, in order.
C16_LockNotFatal ==
    /\ \A j \in 1..Len(dirk_requests) :
        dirk_requests[j].op = "Lock" =>
            /\ LockCount(j) <= Len(signed_messages)
            /\ signed_messages[LockCount(j)].message.validator_pubkey
                   = AccountNamed(dirk_requests[j].account).public_key
            /\ (j = Len(dirk_requests) /\ generate_result = "Err") =>
                /\ account_idx <= Len(accounts)
                /\ BlsPublicKey_try_from(accounts[account_idx].public_key) = Err
    /\ (/\ source = "Dirk"
        /\ delegate_pc \in {"verify", "done"}
        /\ accounts # <<>>
        /\ LockCount(Len(dirk_requests)) = Len(accounts)) =>
            generate_result = "Ok"
    /\ (source = "Dirk" /\ generate_result = "Ok") =>
        /\ Len(signed_messages) = Len(accounts)
        /\ \A i \in 1..Len(accounts) :
            signed_messages[i].message.validator_pubkey = accounts[i].public_key

\* Both Lock requests failed (Failed, transport error) and the generation
\* returned Ok with both messages.
C16_Witness ==
    /\ generate_result = "Ok"
    /\ Len(accounts) = 2
    /\ Len(signed_messages) = 2
    /\ \E j, k \in 1..Len(dirk_requests) :
        /\ j < k
        /\ dirk_requests[j].op = "Lock"
        /\ dirk_requests[j].state = "Failed"
        /\ dirk_requests[k].op = "Lock"
        /\ dirk_requests[k].state = "TransportError"

\* C17: once generate_from_dirk has returned, every Unlock request that
\* returned Succeeded is followed by a Lock request for the same account.
C17_UnlockPairedWithLock ==
    generate_result # "none" =>
        \A j \in 1..Len(dirk_requests) :
            (dirk_requests[j].op = "Unlock" /\ dirk_requests[j].state = "Succeeded") =>
                \E k \in (j + 1)..Len(dirk_requests) :
                    /\ dirk_requests[k].op = "Lock"
                    /\ dirk_requests[k].account = dirk_requests[j].account

(***************************************************************************)
(* Claims about the JSON-RPC front-end.                                    *)
(***************************************************************************)
\* C18: a parsed request whose method is not one of the supported methods is
\* answered with code -32601 without the inclusion handler being called, and
\* CommitmentError::UnknownMethod is rendered with code -32601.
C18_UnknownMethodRejected ==
    /\ (rpc_call # None /\ rpc_call.req.parses /\ rpc_call.req.method \notin SupportedMethods) =>
        /\ rpc_call.reply = JsonRpcError(-32601)
        /\ ~rpc_call.called
    /\ (error_response # None /\ error_response.error.kind = "UnknownMethod") =>
        error_response.response.code = -32601

\* The reserved codes, by error kind.
ReservedCodes ==
    { <<"Rejected", -32000>>, <<"Duplicate", -32001>>, <<"Internal", -32002>>,
      <<"NoSignature", -32003>>, <<"InvalidSignature", -32004>>, <<"Signature", -32005>>,
      <<"Consensus", -32006>>, <<"Validation", -32006>>, <<"MalformedHeader", -32007>>,
      <<"NoAvailablePubkeyForSlot", -32008>>, <<"InvalidJson", -32600>>,
      <<"UnknownMethod", -32601>> }

\* C19: into_response renders every error kind with the code the table of
\* reserved codes assigns to it.
C19_ReservedCodes ==
    error_response # None =>
        <<error_response.error.kind, error_response.response.code>> \in ReservedCodes

\* A Validation error was rendered with -32006.
C19_Witness ==
    /\ error_response # None
    /\ error_response.error.kind = "Validation"
    /\ error_response.response.code = -32006

(***************************************************************************)
(* Claims about the dispatch of the supported methods, the constraints     *)
(* message, the cost formula and the backoff schedule.                     *)
(***************************************************************************)
\* C21: a parsed request naming bolt_getVersion, bolt_metadata or
\* bolt_requestInclusion is dispatched to a handler and is not answered with
\* the unknown-method error -32601.
C21_SupportedMethodsDispatched ==
    (rpc_call # None /\ rpc_call.req.parses /\ rpc_call.req.method \in SupportedMethods) =>
        /\ rpc_call.called
        /\ rpc_call.reply # JsonRpcError(-32601)

\* The delay the claimed schedule allows for the i-th wait: 100 ms doubled
\* i - 1 times, at most 1 s.
ClaimedDelay(i) == IF 100 * 2 ^ (i - 1) > 1000 THEN 1000 ELSE 100 * 2 ^ (i - 1)

\* C24: the i-th wait is at most 100 ms * 2^(i-1), capped at 1 s, and a run
\* that failed three times and then succeeded waited at least 700 ms in total.
C24_BackoffSchedule ==
    /\ \A i \in 1..Len(waits) : waits[i] <= ClaimedDelay(i)
    /\ (fail_until = 3 /\ retry_result = "Ok") => SumSeq(waits) >= 700

(***************************************************************************)
(* Claims about the constraints message.                                   *)
(***************************************************************************)
\* C22: build and from_transaction set top = false, copy the slot they are
\* given and keep the transactions unchanged and in the same order; the
\* inclusion request has no field that could set the flag.
C22_TopFalseSlotAndOrder ==
    /\ \A pubkey \in Pubkeys, request \in InclusionRequests :
           LET message == build(pubkey, request)
           IN /\ message.top = FALSE
              /\ message.slot = request.slot
              /\ message.pubkey = pubkey
              /\ Len(message.transactions) = Len(request.txs)
              /\ \A i \in 1..Len(request.txs) : message.transactions[i] = request.txs[i]
    /\ constraints_call # None =>
           /\ constraints_call.message.top = FALSE
           /\ constraints_call.message.slot = constraints_call.slot
           /\ constraints_call.message.transactions = constraints_call.txs
           /\ constraints_call.fn = "from_transaction" =>
                  Len(constraints_call.message.transactions) = 1

\* A message built from a request with two different transactions.
C22_Witness ==
    /\ constraints_call # None
    /\ constraints_call.fn = "build"
    /\ constraints_call.txs = <<"tx2", "tx1">>
    /\ constraints_call.slot = U64_MAX
    /\ constraints_call.message.transactions = <<"tx2", "tx1">>

(***************************************************************************)
(* Claims about the documented cost formula and its arithmetic.            *)
(***************************************************************************)
\* C23: max_transaction_cost is max_fee_per_gas * gas_limit + tx_value for an
\* EIP-1559 transaction (gas_price * gas_limit + tx_value for a legacy one),
\* plus max_blob_fee_per_gas * blob_gas_used for an EIP-4844 transaction.
C23_DocumentedCost ==
    validation.kind = "Cost" =>
        LET tx == validation.tx
            blob_cost == IF tx.blob.kind = "Some"
                         THEN tx.blob.value.max_fee_per_blob_gas * tx.blob.value.blob_gas
                         ELSE 0
        IN validation.result = Value(tx.max_fee_per_gas * tx.gas_limit + tx.value + blob_cost)

\* C26: no step of max_transaction_cost leaves the 128-bit range: the two
\* additions that build fee_cap and the product gas_limit * fee_cap are
\* exact, the call does not panic, and the result is gas_limit * fee_cap +
\* value.
C26_NoOverflow ==
    validation.kind = "Cost" =>
        LET tx == validation.tx
            with_priority == tx.max_fee_per_gas + unwrap_or(tx.max_priority_fee_per_gas, 0)
            fee_cap == IF tx.blob.kind = "Some"
                       THEN with_priority + tx.blob.value.max_fee_per_blob_gas
                                          + tx.blob.value.blob_gas
                       ELSE with_priority
        IN /\ with_priority <= U128_MAX
           /\ fee_cap <= U128_MAX
           /\ tx.gas_limit * fee_cap <= U128_MAX
           /\ validation.result # Panic
           /\ validation.result.kind = "Value"
           /\ validation.result.value = tx.gas_limit * fee_cap + tx.value

(***************************************************************************)
(* Claims about the remote signer's response states, the action byte and   *)
(* the run without passphrases.                                            *)
(***************************************************************************)
SucceededSigns ==
    Cardinality({i \in 1..Len(dirk_requests) :
                    dirk_requests[i].op = "Sign" /\ dirk_requests[i].state = "Succeeded"})

\* C25: request_signature returns a signature exactly when the response
\* state is Succeeded and the signature bytes are non-empty and parse, and
\* list_accounts returns the accounts exactly when the state is Succeeded;
\* a Sign or ListAccounts request answered Denied, Failed or Unknown is the
\* last request of the run, which ends with an error and adds no message.
C25_SucceededOnly ==
    /\ \A response \in Responses :
           list_accounts(response).kind = "Ok" <=> response = "Succeeded"
    /\ \A response \in Responses, account \in {Account("wallet/1", "k1")} :
         \A bytes \in SignResponses(account, digest(Message("Delegate", account.public_key, delegatee_pubkey)),
                                    compute_domain_from_mask(fork_version("Mainnet"))) :
           /\ request_signature(response, bytes).kind = "Ok" <=>
                  /\ response = "Succeeded"
                  /\ bytes.kind \notin {"empty", "wrong_length"}
           /\ request_signature(response, bytes).kind = "Ok" =>
                  request_signature(response, bytes).value = bytes
    /\ \A i \in 1..Len(dirk_requests) :
           (/\ dirk_requests[i].op \in {"Sign", "ListAccounts"}
            /\ dirk_requests[i].state # "Succeeded") =>
               /\ i = Len(dirk_requests)
               /\ generate_result = "Err"
               /\ delegate_pc = "done"
    /\ source = "Dirk" => Len(signed_messages) <= SucceededSigns

\* A Sign request answered Denied after a successful listing and unlock.
C25_Witness ==
    /\ Len(dirk_requests) = 3
    /\ dirk_requests[1].op = "ListAccounts" /\ dirk_requests[1].state = "Succeeded"
    /\ dirk_requests[3].op = "Sign" /\ dirk_requests[3].state = "Denied"
    /\ generate_result = "Err"
    /\ signed_messages = <<>>

ValidatorKeys == {[kind |-> "pubkey", of |-> k] : k \in {"k1", "k2"}}

\* The signed message of the other kind over the same keys and signature.
Counterpart(signed) ==
    SignedMessage(IF signed.kind = "Delegation" THEN "Revoke" ELSE "Delegate",
                  signed.message.validator_pubkey, signed.message.delegatee_pubkey,
                  signed.signature)

\* C27: DelegationMessage::new sets action 0 and RevocationMessage::new sets
\* action 1, so the digests of a delegation and of a revocation over the same
\* keys differ, and no signature verifies both for the signed delegation and
\* for the signed revocation over the same keys (SHA-256 collision free).
C27_ActionSeparates ==
    /\ \A v \in ValidatorKeys, d \in ValidatorKeys \cup {delegatee_pubkey} :
           LET delegation == DelegationMessage_new(v, d)
               revocation == RevocationMessage_new(v, d)
           IN /\ delegation.action = 0
              /\ revocation.action = 1
              /\ digest(delegation) # digest(revocation)
              /\ \A chain \in Chains, signer \in ValidatorKeys, c \in Chains,
                    m \in {delegation, revocation} :
                     LET signature ==
                             signature_of(signer, compute_commit_boost_signing_root(digest(m), c))
                     IN ~ /\ verify_message_signature(
                                 SignedMessage("Delegate", v, d, signature), chain).kind = "Ok"
                          /\ verify_message_signature(
                                 SignedMessage("Revoke", v, d, signature), chain).kind = "Ok"
    /\ \A i \in 1..verified :
           /\ verify_message_signature(signed_messages[i], cmd_chain).kind = "Ok"
           /\ verify_message_signature(Counterpart(signed_messages[i]), cmd_chain).kind = "Err"
           /\ signed_messages[i].message.action = (IF cmd_action = "Delegate" THEN 0 ELSE 1)

\* A run that has verified a signed revocation with action byte 1.
C27_Witness ==
    /\ verified >= 1
    /\ signed_messages[1].kind = "Revocation"
    /\ signed_messages[1].message.action = 1
    /\ verify_message_signature(signed_messages[1], cmd_chain).kind = "Ok"

\* generate_from_dirk has returned (or was ended by a failed setup).
DirkReturned == delegate_pc \in {"verify", "done"}

\* C28: generate_from_dirk without passphrases sends no Unlock, Sign or Lock
\* request: after a successful listing it returns an error at the first
\* listed account, and when no account is listed it returns Ok with an empty
\* list of signed messages.
C28_NoPassphrases ==
    (source = "Dirk" /\ passphrases = None) =>
        /\ \A i \in 1..Len(dirk_requests) : dirk_requests[i].op = "ListAccounts"
        /\ Len(dirk_requests) <= 1
        /\ delegate_pc \notin {"unlock", "sign", "lock"}
        /\ signed_messages = <<>>
        /\ account_idx <= 1
        /\ (/\ DirkReturned
            /\ dirk_requests # <<>>
            /\ dirk_requests[1].state = "Succeeded") =>
               IF accounts = <<>>
               THEN generate_result = "Ok"
               ELSE generate_result = "Err" /\ run_result = "Err" /\ ~write_called
        /\ generate_result = "Ok" => accounts = <<>>

\* Without passphrases: an error at the first of two listed accounts.
C28_Witness ==
    /\ source = "Dirk"
    /\ passphrases = None
    /\ Len(accounts) = 2
    /\ dirk_requests = <<Request("ListAccounts", "", "", "Succeeded")>>
    /\ delegate_pc = "done"
    /\ generate_result = "Err"

\* Without passphrases and without accounts: Ok with an empty list.
C28_WitnessEmpty ==
    /\ source = "Dirk"
    /\ passphrases = None
    /\ accounts = <<>>
    /\ generate_result = "Ok"
    /\ signed_messages = <<>>

(***************************************************************************)
(* Claims about the shutdown channel of start_server.                      *)
(***************************************************************************)
RecvCompleted == Logged("recv_some") \/ Logged("recv_none")

\* The positions of the log before the receive completed.
BeforeRecv ==
    {i \in 1..Len(events) :
        \A j \in 1..i : events[j] \notin {"recv_some", "recv_none"}}

CountBeforeRecv(event) == Cardinality({i \in BeforeRecv : events[i] = event})

C29_Safety ==
    /\ shutdown_calls \in {0, 1}
    /\ shutdown_calls = 1 <=> receiver = "done"
    /\ shutdown_calls = 1 => RecvCompleted
    /\ RecvCompleted <=> receiver # "waiting"
    /\ Logged("recv_some") => CountBeforeRecv("send") >= 1
    /\ Logged("recv_none") =>
           /\ CountBeforeRecv("send") = 0
           /\ CountBeforeRecv("drop") = 1 + CountBeforeRecv("clone")
    /\ (senders > 0 /\ ~Logged("send")) => (shutdown_calls = 0 /\ receiver = "waiting")

\* C29: shutdown() is invoked once, exactly when recv() on the shutdown
\* channel has completed; recv() completes after a value was sent and after
\* every copy of the sender was dropped without a send, and shutdown() is
\* not invoked while a sender is alive and nothing has been sent.
C29_ShutdownOnReceive ==
    /\ []C29_Safety
    /\ (Logged("send") \/ senders = 0) ~> (shutdown_calls = 1)

\* shutdown() after the sender and its clone were dropped without a send.
C29_Witness ==
    /\ shutdown_calls = 1
    /\ events = <<"clone", "drop", "drop", "recv_none">>

\* shutdown() after a value was sent while the sender is still alive.
C29_WitnessSend ==
    /\ shutdown_calls = 1
    /\ senders = 1
    /\ events = <<"send", "recv_some">>

(***************************************************************************)
(* Claims about the gross tip revenue counter.                             *)
(***************************************************************************)
\* C30: increment_gross_tip_revenue(tip) ends for every tip without a panic
\* and has then incremented the counter by parts of at most u64::MAX each
\* whose sum is tip, a single part when tip is at most u64::MAX.
C30_SplitsExactly ==
    /\ metrics_pc # "panicked"
    /\ \A i \in 1..Len(increments) : increments[i] <= U64_MAX
    /\ metrics_pc = "done" =>
           /\ SumSeq(increments) = tip_arg
           /\ tip_arg <= U64_MAX => Len(increments) = 1

\* The same for the tips whose parts fit into one Vec.
C30_WithinVecLimit ==
    tip_arg <= vec_limit * U64_MAX => C30_SplitsExactly

====
